---- MODULE Spec2Model ----
(***************************************************************************)
(* State-machine model of the iterative solvers of feos-core:              *)
(*   - phase-diagram continuation (phase_diagram_pure.rs,                  *)
(*     phase_diagram_binary.rs),                                           *)
(*   - the critical-point solver (state/critical_point.rs),                *)
(*   - the heteroazeotrope solver (phase_diagram_binary.rs).               *)
(* The equation of state and the solvers whose code lives outside these    *)
(* files are the environment: every call to them is a nondeterministic     *)
(* choice over the results the callee can return.                          *)
(***************************************************************************)
EXTENDS Integers, Sequences, FiniteSets, TLC

VARIABLES
    d_pc,       \* diagram constructor: position in the running function
    d_call,     \* diagram constructor: the call (function and arguments)
    d_vec,      \* the Vec under construction (states / vle_vec)
    d_warm,     \* the warm start held by the loop (vle, or tp_old and y_old)
    d_i,        \* number of loop steps done
    d_n,        \* number of loop steps of the running loop
    d_saved,    \* states1 of new_vlle while states2 is computed
    d_loop,     \* iterate_vle's arguments: branch, bubble, vle_1 given
    d_log,      \* history: one record per solver call of the continuation
    d_result    \* what the constructor returned (<< >> while running)

dvars ==
    <<d_pc, d_call, d_vec, d_warm, d_i, d_n, d_saved, d_loop, d_log, d_result>>

VARIABLES
    c_pc,       \* critical point: position in the running function
    c_call,     \* the call: function, initial temperature, options, EOS data
    c_trial,    \* index of the running trial temperature (0: caller's guess)
    c_i,        \* critical_point_hkm: iterations completed
    c_t,        \* critical_point_hkm: t, reduced temperature
    c_rho,      \* critical_point_hkm: rho, reduced density
    c_attempts, \* history: the critical_point_hkm calls, in order
    c_last,     \* history: the last Newton step applied
    c_conv,     \* history: the running solve passed its convergence test
    c_inner,    \* critical_point_binary: the last State::critical_point call
    c_result    \* what the outermost call returned (<< >> while running)

cvars ==
    <<c_pc, c_call, c_trial, c_i, c_t, c_rho, c_attempts, c_last, c_conv,
      c_inner, c_result>>

VARIABLES
    h_pc,       \* heteroazeotrope: position in the running function
    h_call,     \* the call: function, temperature or pressure, options
    h_k,        \* loop passes completed
    h_x,        \* the iterate: <<v, l1, l2>>
    h_seen,     \* history: a tested iterate passed the convergence test
    h_upd,      \* history: the last Newton update computed
    h_setup,    \* the calls that built the initial guess, with their results
    h_result    \* what the call returned (<< >> while running)

hvars == <<h_pc, h_call, h_k, h_x, h_seen, h_upd, h_setup, h_result>>

VARIABLES
    g_vlle,     \* PhaseDiagramHetero::new: what the heteroazeotrope solve returned
    g_calls,    \* the calls of iterate_vle and new_lle made so far
    g_dia       \* the finished branches dia1 and dia2

gvars == <<g_vlle, g_calls, g_dia>>

VARIABLES
    p_pc,       \* objects and parameters: "start", "ready", "done" ("idle")
    p_call,     \* the call: its function and arguments
    p_obj,      \* the object the calls work on
    p_out       \* the values returned to the caller so far

pvars == <<p_pc, p_call, p_obj, p_out>>

vars == <<dvars, cvars, hvars, gvars, pvars>>

----------------------------------------------------------------------------
(* Option<T>: None is the empty tuple, Some(x) the one-element tuple.      *)

None == << >>

Some(x) == <<x>>

IsSome(o) == Len(o) = 1

\* Result::ok(): Ok(v) becomes Some(v), Err(_) becomes None.
ResultOk(r) == IF r.ok THEN Some(r.val) ELSE None

Ok(v) == [ok |-> TRUE, val |-> v]

Err(e) == [ok |-> FALSE, err |-> e]

\* Iterator::rev() followed by collect().
RECURSIVE Rev(_)
Rev(s) == IF s = << >> THEN << >> ELSE Append(Rev(Tail(s)), Head(s))

----------------------------------------------------------------------------
(* Bounds of the diagram model.                                            *)

\* Largest requested number of points.
MaxPoints == 5

PointCounts == 0 .. MaxPoints

(* usize arithmetic.  A value below zero stands for the wrapped value      *)
(* 2^64 + v that a build without overflow checks produces; "panic" is the  *)
(* build with overflow checks.                                             *)
Builds == {"checked", "wrapping"}

USub(a, b, build) ==
    IF a >= b THEN Ok(a - b)
    ELSE IF build = "checked" THEN Err("panic: attempt to subtract with overflow")
    ELSE Ok(a - b)

(* Array::linspace(a, b, n) has n elements; a wrapped n cannot be          *)
(* allocated (capacity overflow).                                          *)
Linspace(n) ==
    IF n < 0 THEN Err("panic: capacity overflow") ELSE Ok(n)

(* ndarray slicing s![1..-1] and s![1..] of an axis of length len: the     *)
(* start index must not exceed len, an end before the start is moved to    *)
(* the start.                                                              *)
SliceLen(len, with_end) ==
    IF 1 > len THEN Err("panic: slice begin 1 is past end of axis")
    ELSE LET end == IF with_end THEN len - 1 ELSE len
             e2  == IF end < 1 THEN 1 ELSE end
         IN  Ok(e2 - 1)

----------------------------------------------------------------------------
(* Phase-diagram continuation.                                             *)
(*                                                                         *)
(* An entry of a diagram is a record [kind, b, i]: kind "vle_0"/"vle_1"    *)
(* are the end-points handed to iterate_vle, "sc" the critical point of    *)
(* PhaseDiagram::pure, "step" the equilibrium of continuation step i       *)
(* (index into the linspace array) of loop b.                              *)

Entry(kind, b, i) == [kind |-> kind, b |-> b, i |-> i]

\* Errors a step's solver (PhaseEquilibrium::pure, bubble/dew point,
\* tp_flash) can return.
StepErrors == {"NotConverged", "IterationFailed"}

StepResults(b, i) == {Ok(Entry("step", b, i))} \cup {Err(e) : e \in StepErrors}

\* The warm start of a loop: `vle` in PhaseDiagram::pure and new_lle,
\* `tp_old` and `y_old` in iterate_vle.
Warm(vle, tp_old, y_old) == [vle |-> vle, tp_old |-> tp_old, y_old |-> y_old]

NoWarm == Warm(None, None, None)

\* `vle = PhaseEquilibrium::pure(..).ok()` and `vle = tp_flash(..).ok()`.
NextVle(warm, res) == Warm(ResultOk(res), None, None)

\* A continuation that keeps the previous warm start when a step fails.
NextTpYKeep(warm, res) ==
    IF res.ok THEN Warm(None, Some(res.val), Some(res.val))
    ELSE warm

\* iterate_vle: `if let Ok(vle) = vle { y_old = Some(..); tp_old = Some(..) }
\* else { y_old = None; tp_old = None }`.
NextTpY(warm, res) ==
    IF res.ok THEN Warm(None, Some(res.val), Some(res.val))
    ELSE Warm(None, None, None)

\* `if let Some(vle) = .. { states.push(vle.clone()) }`.
PushIfOk(vec, res) == IF res.ok THEN Append(vec, res.val) ELSE vec

LogRec(b, i, warm, res) == [b |-> b, i |-> i, warm |-> warm, ok |-> res.ok]

Loop(b, bubble, has_end) == [b |-> b, bubble |-> bubble, has_end |-> has_end]

DiagramFns == {"pure", "new_vle", "new_lle"}

\* vle_pure_comps after the swap: <<component 2 has a saturation state,
\* component 1 has one>>.
SatCases == {<<TRUE, TRUE>>, <<TRUE, FALSE>>, <<FALSE, TRUE>>, <<FALSE, FALSE>>}

\* The x_lle given to new_txy and new_pxy: the mole fractions of the first
\* component in the two liquid phases, in tenths.
XLle == {<<2, 8>>, <<8, 2>>}

XLleOptions == {None} \cup {Some(x) : x \in XLle}

\* `cp.molefracs[0]` of the binary critical point, in tenths.
CriticalMolefrac == 4

\* The limits given to new_txy_lle (temperatures) and new_pxy_lle
\* (pressures).
MinTp == 1
MaxTp == 9

\* The min_temperature given to PhaseDiagram::pure.
MinTemperatures == {200, 400}

\* The temperature of the critical point sc.
CriticalTemperature == 300

DiagramCalls ==
    [fn : {"pure"}, npoints : PointCounts, build : Builds,
     x_lle : {None}, tpT : {TRUE}, sat : {<<TRUE, TRUE>>},
     min_temperature : MinTemperatures]
    \cup
    [fn : {"new_vle"}, npoints : PointCounts, build : Builds,
     x_lle : XLleOptions, tpT : BOOLEAN, sat : SatCases]
    \cup
    [fn : {"new_lle"}, npoints : PointCounts, build : Builds,
     x_lle : {None}, tpT : BOOLEAN, sat : {<<TRUE, TRUE>>}]

DInit ==
    /\ d_pc = "start"
    /\ d_call \in DiagramCalls
    /\ d_vec = << >>
    /\ d_warm = NoWarm
    /\ d_i = 0
    /\ d_n = 0
    /\ d_saved = << >>
    /\ d_loop = Loop(1, TRUE, FALSE)
    /\ d_log = << >>
    /\ d_result = None

DReturn(r) ==
    /\ d_pc' = "done"
    /\ d_result' = Some(r)

(* PhaseDiagram::pure up to the loop: the critical point, then the point   *)
(* arithmetic npoints - 2, npoints - 1 and linspace(0, 1, npoints - 1).    *)
PureSteps(npoints, build) ==
    LET a == USub(npoints, 2, build)
        b == USub(npoints, 1, build)
    IN  IF ~a.ok THEN a
        ELSE IF ~b.ok THEN b
        ELSE Linspace(b.val)

\* A factor (npoints - 1) / (npoints - 2).
PureMaxFractionInverted(npoints) == [num |-> npoints - 1, den |-> npoints - 2]

\* `(npoints - 2) as f64 / (npoints - 1) as f64`.
PureMaxFraction(npoints) == [num |-> npoints - 2, den |-> npoints - 1]

\* Element j (from 0) of Array::linspace(0.0, 1.0, m).
LinspaceValue(j, m) ==
    IF m > 1 THEN [num |-> j, den |-> m - 1] ELSE [num |-> 0, den |-> 1]

(* The temperature ti of step j of PhaseDiagram::pure, as a fraction:      *)
(* min_temperature + (max_temperature - min_temperature) * i with          *)
(* max_temperature = min_temperature + (sc.temperature - min_temperature)  *)
(* * (npoints - 2) / (npoints - 1).                                        *)
PureTemperature(min_temperature, sc_temperature, npoints, j) ==
    LET f == PureMaxFraction(npoints)
        i == LinspaceValue(j, npoints - 1)
    IN  [num |-> min_temperature * f.den * i.den
                 + (sc_temperature - min_temperature) * f.num * i.num,
         den |-> f.den * i.den]

PureBegin ==
    /\ d_pc = "start"
    /\ d_call.fn = "pure"
    /\ \E sc \in {Ok("sc"), Err("NotConverged"), Err("LinAlgError")} :
         IF ~sc.ok
         THEN /\ DReturn(sc)
              /\ UNCHANGED <<d_call, d_vec, d_warm, d_i, d_n, d_saved, d_loop, d_log>>
         ELSE LET n == PureSteps(d_call.npoints, d_call.build)
              IN  IF ~n.ok
                  THEN /\ DReturn(n)
                       /\ UNCHANGED <<d_call, d_vec, d_warm, d_i, d_n, d_saved, d_loop, d_log>>
                  ELSE /\ d_pc' = "pure_loop"
                       /\ d_n' = n.val
                       /\ d_i' = 0
                       /\ d_warm' = NoWarm
                       /\ d_vec' = << >>
                       /\ UNCHANGED <<d_call, d_saved, d_loop, d_log, d_result>>

\* One pass of `for &ti in temperatures.iter()`.
PureStep ==
    /\ d_pc = "pure_loop"
    /\ d_i < d_n
    /\ \E res \in StepResults(1, d_i) :
         /\ d_log' = Append(d_log, LogRec(1, d_i, d_warm, res))
         /\ d_warm' = NextVle(d_warm, res)
         /\ d_vec' = PushIfOk(d_vec, res)
    /\ d_i' = d_i + 1
    /\ UNCHANGED <<d_pc, d_call, d_n, d_saved, d_loop, d_result>>

\* `states.push(PhaseEquilibrium::from_states(sc.clone(), sc)); Ok(..)`.
PureEnd ==
    /\ d_pc = "pure_loop"
    /\ d_i = d_n
    /\ DReturn(Ok(Append(d_vec, Entry("sc", 1, d_n))))
    /\ UNCHANGED <<d_call, d_vec, d_warm, d_i, d_n, d_saved, d_loop, d_log>>

(* new_lle: linspace(min_tp, max_tp, npoints), then one tp_flash per       *)
(* point.                                                                  *)
LleBegin ==
    /\ d_pc = "start"
    /\ d_call.fn = "new_lle"
    /\ \E tp_vec \in {Linspace(d_call.npoints), Err("QuantityError")} :
         IF ~tp_vec.ok
         THEN /\ DReturn(tp_vec)
              /\ UNCHANGED <<d_call, d_vec, d_warm, d_i, d_n, d_saved, d_loop, d_log>>
         ELSE /\ d_pc' = "lle_loop"
              /\ d_n' = tp_vec.val
              /\ d_i' = 0
              /\ d_warm' = NoWarm
              /\ d_vec' = << >>
              /\ UNCHANGED <<d_call, d_saved, d_loop, d_log, d_result>>

LleStep ==
    /\ d_pc = "lle_loop"
    /\ d_i < d_n
    /\ \E res \in StepResults(1, d_i) :
         /\ d_log' = Append(d_log, LogRec(1, d_i, d_warm, res))
         /\ d_warm' = NextVle(d_warm, res)
         /\ d_vec' = PushIfOk(d_vec, res)
    /\ d_i' = d_i + 1
    /\ UNCHANGED <<d_pc, d_call, d_n, d_saved, d_loop, d_result>>

LleEnd ==
    /\ d_pc = "lle_loop"
    /\ d_i = d_n
    /\ DReturn(Ok(d_vec))
    /\ UNCHANGED <<d_call, d_vec, d_warm, d_i, d_n, d_saved, d_loop, d_log>>

(* iterate_vle up to its loop: linspace(x_lim[0], x_lim[1], npoints),      *)
(* sliced [1..-1] when vle_1 is given and [1..] otherwise; tp_old starts   *)
(* from vle_0, y_old from None, and vle_0 is pushed.                       *)
IterateVleSteps(npoints, has_end) ==
    LET x == Linspace(npoints)
    IN  IF ~x.ok THEN x ELSE SliceLen(x.val, has_end)

IterateVleBegin(b, npoints, bubble, has_end) ==
    LET n == IterateVleSteps(npoints, has_end)
    IN  IF ~n.ok
        THEN /\ DReturn(n)
             /\ UNCHANGED <<d_vec, d_warm, d_i, d_n, d_loop>>
        ELSE /\ d_pc' = "vle_loop"
             /\ d_n' = n.val
             /\ d_i' = 0
             /\ d_warm' = Warm(None, Some(Entry("vle_0", b, 0)), None)
             /\ d_vec' = <<Entry("vle_0", b, 0)>>
             /\ d_loop' = Loop(b, bubble, has_end)
             /\ UNCHANGED d_result

\* The number of points of the two branches of new_vlle.
VllePoints(npoints, b) == IF b = 1 THEN npoints \div 2 ELSE npoints - npoints \div 2

(* new_vle (behind new_txy and new_pxy) up to the first loop.              *)
VleBegin ==
    /\ d_pc = "start"
    /\ d_call.fn = "new_vle"
    /\ UNCHANGED <<d_call, d_saved, d_log>>
    /\ IF IsSome(d_call.x_lle)
       THEN \* new_vlle
            IF d_call.sat = <<TRUE, TRUE>>
            THEN IterateVleBegin(1, VllePoints(d_call.npoints, 1), TRUE, FALSE)
            ELSE /\ DReturn(Err("SuperCritical"))
                 /\ UNCHANGED <<d_vec, d_warm, d_i, d_n, d_loop>>
       ELSE IF d_call.sat = <<FALSE, FALSE>>
            THEN /\ DReturn(Err("SuperCritical"))
                 /\ UNCHANGED <<d_vec, d_warm, d_i, d_n, d_loop>>
            ELSE IF d_call.sat = <<TRUE, TRUE>>
            THEN IterateVleBegin(1, d_call.npoints, TRUE, TRUE)
            ELSE \E cp \in {Ok("cp"), Err("ArgminError"), Err("NotConverged")} :
                   IF ~cp.ok
                   THEN /\ DReturn(cp)
                        /\ UNCHANGED <<d_vec, d_warm, d_i, d_n, d_loop>>
                   ELSE IterateVleBegin(1, d_call.npoints, d_call.tpT, TRUE)

\* One pass of `for xi in x` of iterate_vle.
IterateVleStep ==
    /\ d_pc = "vle_loop"
    /\ d_i < d_n
    /\ \E res \in StepResults(d_loop.b, d_i + 1) :
         /\ d_log' = Append(d_log, LogRec(d_loop.b, d_i + 1, d_warm, res))
         /\ d_warm' = NextTpY(d_warm, res)
         /\ d_vec' = PushIfOk(d_vec, res)
    /\ d_i' = d_i + 1
    /\ UNCHANGED <<d_pc, d_call, d_n, d_saved, d_loop, d_result>>

\* `if let Some(vle_1) = vle_1 { vle_vec.push(vle_1) }`.
PushEnd(vec, loop, n) ==
    IF loop.has_end THEN Append(vec, Entry("vle_1", loop.b, n + 1)) ELSE vec

\* An assembly of the diagram that never reverses the vector.
VleOrderAsComputed(vec, bubble) == vec

\* new_vle: `if !bubble { states = states.into_iter().rev().collect() }`.
VleOrder(vec, bubble) == IF ~bubble THEN Rev(vec) ELSE vec

\* A chain of the two branches as they were computed.
VlleChainAsComputed(states1, states2) == states1 \o states2

\* new_vle with x_lle: `states1.into_iter().chain(states2.into_iter().rev())`.
VlleChain(states1, states2) == states1 \o Rev(states2)

(* The end of iterate_vle and what its caller does with the vector: the    *)
(* second branch of new_vlle, or the assembly of the diagram.              *)
IterateVleEnd ==
    /\ d_pc = "vle_loop"
    /\ d_i = d_n
    /\ UNCHANGED <<d_call, d_log>>
    /\ LET vle_vec == PushEnd(d_vec, d_loop, d_n)
       IN  IF ~IsSome(d_call.x_lle)
           THEN /\ DReturn(Ok(VleOrder(vle_vec, d_loop.bubble)))
                /\ UNCHANGED <<d_vec, d_warm, d_i, d_n, d_saved, d_loop>>
           ELSE IF d_loop.b = 1
           THEN /\ d_saved' = vle_vec
                /\ IterateVleBegin(2, VllePoints(d_call.npoints, 2), TRUE, FALSE)
           ELSE /\ DReturn(Ok(VlleChain(d_saved, vle_vec)))
                /\ UNCHANGED <<d_vec, d_warm, d_i, d_n, d_saved, d_loop>>

(***************************************************************************)
(* PhaseDiagramHetero::new (behind its new_txy and new_pxy): the           *)
(* heteroazeotrope, the two branches of new_vlle and, with a limit, the    *)
(* liquid-liquid branch of new_lle.                                        *)
(***************************************************************************)

MaxPointsLle == 2

\* The temperature (fixed pressure) or pressure (fixed temperature) of the
\* heteroazeotrope.
HeteroTp == 5

HeteroDiagramCalls ==
    [fn : {"hetero_new"}, tpT : BOOLEAN, sat : SatCases,
     npoints : PointCounts, npoints_lle : 0 .. MaxPointsLle,
     tp_lim_lle : {None, Some(MinTp)}]

\* What heteroazeotrope_t / heteroazeotrope_p return: the mole fractions of
\* the first component in liquid1 and liquid2 (tenths) and the temperature
\* or pressure of the vapor, or an error.
HeteroazeotropeResults ==
    {Ok([x |-> x, tp |-> HeteroTp]) : x \in XLle}
    \cup {Err("NotConverged"), Err("IterationFailed")}

GIdle ==
    /\ g_vlle = None
    /\ g_calls = << >>
    /\ g_dia = << >>

GInit ==
    /\ d_pc = "start"
    /\ d_call \in HeteroDiagramCalls
    /\ d_vec = << >>
    /\ d_warm = NoWarm
    /\ d_i = 0
    /\ d_n = 0
    /\ d_saved = << >>
    /\ d_loop = Loop(1, TRUE, FALSE)
    /\ d_log = << >>
    /\ d_result = None
    /\ GIdle

IterateVleCall(x_lim, npoints) ==
    [fn |-> "iterate_vle", x_lim |-> x_lim, npoints |-> npoints]

\* new_vlle: `&[0.0, x_lle.0], vle2, None, npoints / 2` and
\* `&[1.0, x_lle.1], vle1, None, npoints - npoints / 2`.
VlleCall(x_lle, npoints, b) ==
    IterateVleCall(IF b = 1 THEN <<0, x_lle[1]>> ELSE <<10, x_lle[2]>>,
                   VllePoints(npoints, b))

\* A feed at the first liquid composition.
HeteroFeedFirst(x_hetero) == [num |-> x_hetero[1], den |-> 1]

\* `0.5 * (x_hetero.0 + x_hetero.1)`.
HeteroFeed(x_hetero) == [num |-> x_hetero[1] + x_hetero[2], den |-> 2]

\* `PhaseDiagramBinary::new_lle(eos, tp, 0.5 * (..), tp_lim, tp_hetero,
\* npoints_lle)`.
NewLleCall(vlle, tp_lim, npoints_lle) ==
    [fn |-> "new_lle", x_feed |-> HeteroFeed(vlle.x), min_tp |-> tp_lim,
     max_tp |-> vlle.tp, npoints |-> npoints_lle]

PhaseDiagramHetero(vle1, vle2, lle) == [vle1 |-> vle1, vle2 |-> vle2, lle |-> lle]

(* PhaseDiagramHetero::new up to the first loop: the pure components, the  *)
(* heteroazeotrope, and the first branch of new_vlle.                      *)
HeteroNewBegin ==
    /\ d_pc = "start"
    /\ d_call.fn = "hetero_new"
    /\ UNCHANGED <<d_call, d_saved, d_log, g_dia>>
    /\ \E vlle \in HeteroazeotropeResults :
         /\ g_vlle' = Some(vlle)
         /\ IF ~vlle.ok
            THEN /\ DReturn(vlle)
                 /\ UNCHANGED <<d_vec, d_warm, d_i, d_n, d_loop, g_calls>>
            ELSE IF d_call.sat # <<TRUE, TRUE>>
            THEN /\ DReturn(Err("SuperCritical"))
                 /\ UNCHANGED <<d_vec, d_warm, d_i, d_n, d_loop, g_calls>>
            ELSE LET c == VlleCall(vlle.val.x, d_call.npoints, 1)
                 IN  /\ g_calls' = <<c>>
                     /\ IterateVleBegin(1, c.npoints, TRUE, FALSE)

(* The end of a branch of new_vlle: the second branch after the first,     *)
(* and after the second the liquid-liquid branch up to its loop, or the    *)
(* diagram without one.                                                    *)
HeteroVleEnd ==
    /\ d_pc = "vle_loop"
    /\ d_call.fn = "hetero_new"
    /\ d_i = d_n
    /\ UNCHANGED <<d_call, d_saved, d_log, g_vlle>>
    /\ LET vle_vec == PushEnd(d_vec, d_loop, d_n)
           vlle == g_vlle[1].val
       IN  /\ g_dia' = Append(g_dia, vle_vec)
           /\ IF d_loop.b = 1
              THEN LET c == VlleCall(vlle.x, d_call.npoints, 2)
                   IN  /\ g_calls' = Append(g_calls, c)
                       /\ IterateVleBegin(2, c.npoints, TRUE, FALSE)
              ELSE IF d_call.tp_lim_lle = None
              THEN /\ DReturn(Ok(PhaseDiagramHetero(g_dia[1], vle_vec, None)))
                   /\ UNCHANGED <<d_vec, d_warm, d_i, d_n, d_loop, g_calls>>
              ELSE LET c == NewLleCall(vlle, d_call.tp_lim_lle[1], d_call.npoints_lle)
                   IN  /\ g_calls' = Append(g_calls, c)
                       /\ UNCHANGED d_loop
                       /\ \E tp_vec \in {Linspace(c.npoints), Err("QuantityError")} :
                            IF ~tp_vec.ok
                            THEN /\ DReturn(tp_vec)
                                 /\ UNCHANGED <<d_vec, d_warm, d_i, d_n>>
                            ELSE /\ d_pc' = "lle_loop"
                                 /\ d_n' = tp_vec.val
                                 /\ d_i' = 0
                                 /\ d_warm' = NoWarm
                                 /\ d_vec' = << >>
                                 /\ UNCHANGED d_result

\* The end of new_lle and `Ok(Self { vle1, vle2, lle })`.
HeteroLleEnd ==
    /\ d_pc = "lle_loop"
    /\ d_call.fn = "hetero_new"
    /\ d_i = d_n
    /\ DReturn(Ok(PhaseDiagramHetero(g_dia[1], g_dia[2], Some(d_vec))))
    /\ UNCHANGED <<d_call, d_vec, d_warm, d_i, d_n, d_saved, d_loop, d_log, gvars>>

GNext ==
    \/ HeteroNewBegin /\ UNCHANGED <<cvars, hvars, pvars>>
    \/ IterateVleStep /\ UNCHANGED <<cvars, hvars, gvars, pvars>>
    \/ HeteroVleEnd /\ UNCHANGED <<cvars, hvars, pvars>>
    \/ LleStep /\ UNCHANGED <<cvars, hvars, gvars, pvars>>
    \/ HeteroLleEnd /\ UNCHANGED <<cvars, hvars, pvars>>

DNext ==
    \/ PureBegin /\ UNCHANGED <<cvars, hvars, gvars, pvars>>
    \/ PureStep /\ UNCHANGED <<cvars, hvars, gvars, pvars>>
    \/ PureEnd /\ UNCHANGED <<cvars, hvars, gvars, pvars>>
    \/ LleBegin /\ UNCHANGED <<cvars, hvars, gvars, pvars>>
    \/ LleStep /\ UNCHANGED <<cvars, hvars, gvars, pvars>>
    \/ LleEnd /\ UNCHANGED <<cvars, hvars, gvars, pvars>>
    \/ VleBegin /\ UNCHANGED <<cvars, hvars, gvars, pvars>>
    \/ IterateVleStep /\ UNCHANGED <<cvars, hvars, gvars, pvars>>
    \/ IterateVleEnd /\ UNCHANGED <<cvars, hvars, gvars, pvars>>


----------------------------------------------------------------------------
(* Properties of the continuation.                                         *)

Failed == {k \in DOMAIN d_log : ~d_log[k].ok}

Succeeded == {k \in DOMAIN d_log : d_log[k].ok}

\* The warm start a loop of function fn passes on from a step's result.
WarmOf(fn, rec) ==
    LET e == Entry("step", rec.b, rec.i)
    IN  IF fn = "new_vle" THEN Warm(None, Some(e), Some(e))
        ELSE Warm(Some(e), None, None)

\* The warm start of the first step of a loop.
FirstWarm(fn, b) ==
    IF fn = "new_vle" THEN Warm(None, Some(Entry("vle_0", b, 0)), None)
    ELSE NoWarm

\* The earlier steps of the same loop as step k.
Earlier(k) == {j \in DOMAIN d_log : j < k /\ d_log[j].b = d_log[k].b}

Max(S) == CHOOSE m \in S : \A x \in S : x <= m

SeqRange(q) == {q[k] : k \in DOMAIN q}

StepEntries(q) == {e \in SeqRange(q) : e.kind = "step"}

\* The diagram entries in existence: the vectors under construction and,
\* once the constructor has returned a diagram, the diagram.
Built ==
    IF IsSome(d_result) /\ d_result[1].ok
    THEN StepEntries(d_result[1].val)
    ELSE StepEntries(d_saved) \cup StepEntries(d_vec)

FailedStepsAddNothing ==
    IF IsSome(d_result) /\ ~d_result[1].ok THEN TRUE
    ELSE Built = {Entry("step", d_log[k].b, d_log[k].i) : k \in Succeeded}

(* C1 as claimed: a failed step adds no entry, and each step is            *)
(* warm-started from the most recent earlier step of its loop that         *)
(* succeeded, running without a warm start only when none has succeeded.   *)
C1_WarmFromLastSuccess ==
    /\ FailedStepsAddNothing
    /\ \A k \in DOMAIN d_log :
         LET good == Earlier(k) \cap Succeeded
         IN  IF good = {}
             THEN d_log[k].warm \in {FirstWarm(d_call.fn, d_log[k].b), NoWarm}
             ELSE d_log[k].warm = WarmOf(d_call.fn, d_log[Max(good)])

(* C1 amended: a failed step adds no entry; a step is warm-started from    *)
(* the step immediately before it when that step succeeded, and runs with  *)
(* no warm start at all (None) when that step failed, whatever succeeded   *)
(* earlier; the first step of a loop has the loop's initial warm start     *)
(* (None; in iterate_vle the pressure/temperature of vle_0).               *)
C1_WarmFromPreviousStep ==
    /\ FailedStepsAddNothing
    /\ \A k \in DOMAIN d_log :
         d_log[k].warm =
           IF Earlier(k) = {} THEN FirstWarm(d_call.fn, d_log[k].b)
           ELSE IF d_log[Max(Earlier(k))].ok
                THEN WarmOf(d_call.fn, d_log[Max(Earlier(k))])
                ELSE NoWarm

\* A step that follows a failed step which itself follows a success, in a
\* diagram of iterate_vle that was returned.
C1_Witness ==
    /\ d_pc = "done"
    /\ d_call.fn = "new_vle"
    /\ IsSome(d_result) /\ d_result[1].ok
    /\ \E k \in DOMAIN d_log :
         /\ k >= 3
         /\ d_log[k - 2].ok /\ ~d_log[k - 1].ok
         /\ d_log[k - 2].b = d_log[k].b
         /\ d_log[k].warm = NoWarm

Returned == d_pc = "done" /\ IsSome(d_result) /\ d_result[1].ok

(* C2 as claimed: for every requested npoints the returned diagram has     *)
(* npoints minus the number of failed steps entries.                       *)
C2_LengthAllCounts ==
    Returned => Len(d_result[1].val) = d_call.npoints - Cardinality(Failed)

(* C2 amended: the returned diagram has npoints minus the number of failed *)
(* steps entries, except that new_txy/new_pxy without x_lle called with    *)
(* npoints = 1 return their two end-points.                                *)
C2_Length ==
    Returned =>
      IF d_call.fn = "new_vle" /\ ~IsSome(d_call.x_lle) /\ d_call.npoints = 1
      THEN Len(d_result[1].val) = 2 /\ Failed = {}
      ELSE Len(d_result[1].val) = d_call.npoints - Cardinality(Failed)

\* A returned diagram of at least three requested points with a failed step.
C2_Witness ==
    /\ Returned
    /\ d_call.npoints >= 3
    /\ Failed # {}
    /\ Succeeded # {}
    /\ Len(d_result[1].val) = d_call.npoints - Cardinality(Failed)

\* The temperatures that PhaseDiagram::pure has computed a step at.
PureTemperatures ==
    {PureTemperature(d_call.min_temperature, CriticalTemperature,
                     d_call.npoints, d_log[k].i) : k \in DOMAIN d_log}

\* The fraction x lies between the numbers a and b.
Between(x, a, b) ==
    LET lo == IF a < b THEN a ELSE b
        hi == IF a < b THEN b ELSE a
    IN  /\ x.den > 0
        /\ lo * x.den <= x.num
        /\ x.num <= hi * x.den

\* C12: the last entry of a diagram that PhaseDiagram::pure returns is the
\* critical point of State::critical_point and the entries before it are
\* the steps that succeeded; every temperature a step is computed at lies
\* between min_temperature and the critical temperature; when the
\* critical-point solve fails no step is run and no diagram is returned.
C12_PureEndsAtCriticalPoint ==
    d_call.fn = "pure" =>
        /\ \A x \in PureTemperatures :
             Between(x, d_call.min_temperature, CriticalTemperature)
        /\ Returned =>
             LET q == d_result[1].val
             IN  /\ q # << >>
                 /\ q[Len(q)].kind = "sc"
                 /\ \A k \in 1 .. Len(q) - 1 : q[k].kind = "step"
                 /\ Len(q) - 1 = Cardinality(Succeeded)
        /\ (d_pc = "done" /\ ~d_result[1].ok) => d_log = << >>

\* A returned pure diagram of at least three requested points, a step of
\* which failed.
C12_Witness ==
    /\ d_call.fn = "pure"
    /\ Returned
    /\ d_call.npoints >= 3
    /\ Failed # {}
    /\ Succeeded # {}

\* new_txy or new_pxy has returned, one way or the other.
VleDone == d_call.fn = "new_vle" /\ d_pc = "done"

\* Exactly one pure component has no saturation state.
OneSupercritical == d_call.sat \in {<<TRUE, FALSE>>, <<FALSE, TRUE>>}

\* The failures of State::critical_point_binary.
BinaryCriticalErrors == {"ArgminError", "NotConverged"}

\* Errors that are panics of the index arithmetic.
IsPanic(r) == ~r.ok /\ r.err \notin (BinaryCriticalErrors \cup {"SuperCritical"})

\* C13 (as stated): with exactly one pure component without a saturation
\* state, new_txy/new_pxy return a diagram whose two ends are the other
\* pure component and the binary critical point, or the failure of the
\* binary critical-point solve; with no saturation state at all they fail
\* with SuperCritical.
C13_FallsBackToCriticalPoint ==
    VleDone =>
        LET r == d_result[1]
        IN  /\ d_call.sat = <<FALSE, FALSE>> => r = Err("SuperCritical")
            /\ OneSupercritical =>
                 IF r.ok
                 THEN {r.val[1].kind, r.val[Len(r.val)].kind} = {"vle_0", "vle_1"}
                 ELSE r.err \in BinaryCriticalErrors \/ IsPanic(r)

\* C13 (amended): without x_lle and with exactly one pure component without
\* a saturation state, new_pxy returns a diagram that starts at the other
\* pure component and ends at the binary critical point, new_txy returns
\* the reversed list, which starts at the binary critical point and ends at
\* the pure component, and a failure of the binary critical-point solve is
\* returned before any step is run; with x_lle one missing saturation state
\* is enough for SuperCritical, as are two missing ones without x_lle.
C13_FallsBackWithoutXLle ==
    VleDone =>
        LET r == d_result[1]
        IN  /\ d_call.sat = <<FALSE, FALSE>> => r = Err("SuperCritical")
            /\ (IsSome(d_call.x_lle) /\ OneSupercritical) => r = Err("SuperCritical")
            /\ (~IsSome(d_call.x_lle) /\ OneSupercritical) =>
                 IF r.ok
                 THEN LET first == r.val[1].kind
                          last == r.val[Len(r.val)].kind
                      IN  IF d_call.tpT
                          THEN first = "vle_0" /\ last = "vle_1"
                          ELSE first = "vle_1" /\ last = "vle_0"
                 ELSE /\ r.err \in BinaryCriticalErrors \/ IsPanic(r)
                      /\ d_log = << >>

\* new_txy returned a diagram that starts at the binary critical point.
C13_Witness ==
    /\ VleDone
    /\ OneSupercritical
    /\ ~IsSome(d_call.x_lle)
    /\ ~d_call.tpT
    /\ d_result[1].ok
    /\ Len(d_result[1].val) >= 3
    /\ d_result[1].val[1].kind = "vle_1"

\* PhaseDiagramHetero::new has returned.
HeteroNewDone == d_call.fn = "hetero_new" /\ d_pc = "done"

\* The heteroazeotrope solve of PhaseDiagramHetero::new succeeded.
HeteroSolved == IsSome(g_vlle) /\ g_vlle[1].ok

\* No branch was started: no call of iterate_vle or new_lle and no step.
NoBranch == g_calls = << >> /\ g_dia = << >> /\ d_log = << >>

(* The diagram r is made of the two branches of new_vlle, from x = 0 to    *)
(* the composition of liquid1 and from x = 1 to that of liquid2, each      *)
(* starting at its pure component, and of a liquid-liquid branch exactly   *)
(* when a limit was given, of flashes at the feed midway between the two   *)
(* liquid compositions over the range from the limit to the temperature    *)
(* or pressure of the heteroazeotrope.                                     *)
BranchesOf(r, vlle) ==
    /\ Len(g_calls) >= 2
    /\ g_calls[1] = IterateVleCall(<<0, vlle.x[1]>>, d_call.npoints \div 2)
    /\ g_calls[2] = IterateVleCall(<<10, vlle.x[2]>>,
                                   d_call.npoints - d_call.npoints \div 2)
    /\ r.vle1 = g_dia[1]
    /\ r.vle2 = g_dia[2]
    /\ \A b \in 1 .. 2 :
         /\ g_dia[b][1] = Entry("vle_0", b, 0)
         /\ \A k \in 2 .. Len(g_dia[b]) :
              g_dia[b][k].kind = "step" /\ g_dia[b][k].b = b
    /\ IsSome(r.lle) <=> IsSome(d_call.tp_lim_lle)
    /\ Len(g_calls) = IF IsSome(r.lle) THEN 3 ELSE 2
    /\ IsSome(r.lle) =>
         LET c == g_calls[3]
         IN  /\ c.fn = "new_lle"
             /\ 2 * c.x_feed.num = (vlle.x[1] + vlle.x[2]) * c.x_feed.den
             /\ c.min_tp = d_call.tp_lim_lle[1]
             /\ c.max_tp = vlle.tp
             /\ c.npoints = d_call.npoints_lle
             /\ Len(r.lle[1]) <= c.npoints
             /\ \A k \in DOMAIN r.lle[1] : r.lle[1][k].kind = "step"

\* C20 (as stated): PhaseDiagramHetero::new_txy/new_pxy start no branch
\* before the heteroazeotrope is solved and return its error without a
\* branch when the solve fails; when it succeeds they return the two
\* vapor-liquid branches and, exactly when a limit is given, the
\* liquid-liquid branch.
C20_BranchesOnSuccess ==
    /\ (d_call.fn = "hetero_new" /\ ~HeteroSolved) => NoBranch
    /\ HeteroNewDone =>
         IF ~g_vlle[1].ok
         THEN d_result = g_vlle
         ELSE /\ d_result[1].ok
              /\ BranchesOf(d_result[1].val, g_vlle[1].val)

\* C20 (amended): PhaseDiagramHetero::new_txy/new_pxy start no branch
\* before the heteroazeotrope is solved and return its error without a
\* branch when the solve fails; when it succeeds they fail with
\* SuperCritical, again without a branch, unless both pure components have
\* a saturation state, and they fail when a branch of fewer than two
\* points is to be stepped or the range of the liquid-liquid branch cannot
\* be built; every diagram they return is made of the two vapor-liquid
\* branches and, exactly when a limit is given, the liquid-liquid branch.
C20_BranchesWhenSubcritical ==
    /\ (d_call.fn = "hetero_new" /\ ~HeteroSolved) => NoBranch
    /\ HeteroNewDone =>
         IF ~g_vlle[1].ok
         THEN d_result = g_vlle
         ELSE IF d_call.sat # <<TRUE, TRUE>>
         THEN d_result = Some(Err("SuperCritical")) /\ NoBranch
         ELSE IF d_result[1].ok
         THEN BranchesOf(d_result[1].val, g_vlle[1].val)
         ELSE \/ /\ d_result[1].err = "QuantityError"
                 /\ Len(g_calls) = 3
              \/ /\ IsPanic(d_result[1])
                 /\ d_result[1].err # "QuantityError"
                 /\ d_call.npoints < 2

\* A diagram was returned with a step in each of its three branches.
C20_Witness ==
    /\ HeteroNewDone
    /\ d_result[1].ok
    /\ Len(d_result[1].val.vle1) >= 2
    /\ Len(d_result[1].val.vle2) >= 2
    /\ IsSome(d_result[1].val.lle)
    /\ d_result[1].val.lle[1] # << >>

\* Element j (from 0) of Array1::linspace(a, b, m), as a fraction.
LinspaceAt(a, b, j, m) ==
    IF m > 1 THEN [num |-> a * (m - 1) + (b - a) * j, den |-> m - 1]
    ELSE [num |-> a, den |-> 1]

\* new_pxy_lle hands `max_pressure, min_pressure` to new_lle, new_txy_lle
\* `min_temperature, max_temperature`.
LleLimits(call) == IF call.tpT THEN <<MaxTp, MinTp>> ELSE <<MinTp, MaxTp>>

\* x_lim and npoints of the call of iterate_vle for loop b, mole fractions
\* in tenths.
XLim(call, b) ==
    IF IsSome(call.x_lle)
    THEN IF b = 1 THEN <<0, call.x_lle[1][1]>> ELSE <<10, call.x_lle[1][2]>>
    ELSE IF call.sat = <<TRUE, FALSE>> THEN <<0, CriticalMolefrac>>
    ELSE IF call.sat = <<FALSE, TRUE>> THEN <<10, CriticalMolefrac>>
    ELSE <<0, 10>>

VlePoints(call, b) ==
    IF IsSome(call.x_lle) THEN VllePoints(call.npoints, b) ELSE call.npoints

(* The control variable of an entry of the diagram of call: the            *)
(* temperature ti of PhaseDiagram::pure (sc.temperature for the critical   *)
(* point), tp_vec.get(i) of new_lle, and the mole fraction xi of           *)
(* iterate_vle (x_lim[0] and x_lim[1] for vle_0 and vle_1).                *)
Control(call, e) ==
    IF call.fn = "pure"
    THEN IF e.kind = "sc" THEN [num |-> CriticalTemperature, den |-> 1]
         ELSE PureTemperature(call.min_temperature, CriticalTemperature,
                              call.npoints, e.i)
    ELSE IF call.fn = "new_lle"
    THEN LET l == LleLimits(call) IN LinspaceAt(l[1], l[2], e.i, call.npoints)
    ELSE LET l == XLim(call, e.b)
         IN  IF e.kind = "vle_0" THEN [num |-> l[1], den |-> 1]
             ELSE IF e.kind = "vle_1" THEN [num |-> l[2], den |-> 1]
             ELSE LinspaceAt(l[1], l[2], e.i, VlePoints(call, e.b))

\* p <= q for fractions of positive denominators.
Leq(p, q) == p.num * q.den <= q.num * p.den

Monotone(c) ==
    \/ \A k \in 1 .. Len(c) - 1 : Leq(c[k], c[k + 1])
    \/ \A k \in 1 .. Len(c) - 1 : Leq(c[k + 1], c[k])

Controls(q) == [k \in DOMAIN q |-> Control(d_call, q[k])]

\* C14: in every returned diagram the control variable of successive
\* entries (the temperature, the pressure or the stepped mole fraction) is
\* monotone along the list.
C14_MonotoneControl ==
    Returned => Monotone(Controls(d_result[1].val))

\* Entry e was appended before entry f: the first call of iterate_vle runs
\* before the second, and a loop appends in the order of its index.
AppendedBefore(e, f) == e.b < f.b \/ (e.b = f.b /\ e.i < f.i)

\* The list q is in the order in which its entries were appended.
InAppendOrder(q) ==
    \A k, l \in DOMAIN q : k < l => AppendedBefore(q[k], q[l])

Branch(q, b) == SelectSeq(q, LAMBDA e : e.b = b)

\* C15 (as stated): the entries of a returned diagram are in the order in
\* which the continuation appended them.
C15_AppendOrder == Returned => InAppendOrder(d_result[1].val)

\* C15 (amended): the diagrams of PhaseDiagram::pure, of new_txy_lle and
\* new_pxy_lle, and of new_txy/new_pxy without x_lle are in the order of
\* appending, except that new_txy, with one pure component without a
\* saturation state, returns the whole list reversed; with x_lle the list
\* is the first branch in the order of appending followed by the second
\* branch reversed.
C15_ReversedBranches ==
    Returned =>
        LET q == d_result[1].val
        IN  IF IsSome(d_call.x_lle)
            THEN /\ q = Branch(q, 1) \o Branch(q, 2)
                 /\ InAppendOrder(Branch(q, 1))
                 /\ InAppendOrder(Rev(Branch(q, 2)))
            ELSE IF d_call.fn = "new_vle" /\ OneSupercritical /\ ~d_call.tpT
            THEN InAppendOrder(Rev(q))
            ELSE InAppendOrder(q)

\* new_txy or new_pxy with x_lle returned two branches of at least two
\* entries each.
C15_Witness ==
    /\ Returned
    /\ IsSome(d_call.x_lle)
    /\ Len(Branch(d_result[1].val, 1)) >= 2
    /\ Len(Branch(d_result[1].val, 2)) >= 2

----------------------------------------------------------------------------
(* The critical-point solver (state/critical_point.rs).                    *)
(*                                                                         *)
(* Reduced temperature and density are integers of the model; a Newton     *)
(* step is an exact fraction, and the model follows the runs whose         *)
(* iterates stay integers.  Residuals are in units of 1e-9, so that the    *)
(* default tolerance 1e-8 is 10.                                           *)

MAX_ITER_CRIT_POINT == 50

TOL_CRIT_POINT == 10

\* The largest max_iter a caller passes explicitly.
MaxIterOpt == 2

\* The tolerance a caller passes explicitly.
TolOpt == 9

\* The largest density iterate the model follows.
MaxRho == 10400

\* eos.max_density(moles), reduced.
MaxDensities == {10000}

\* The trial temperatures in increasing order.
TrialTemperaturesSorted == <<300, 500, 700>>

\* trial_temperatures, in the order of the array.
TrialTemperatures == <<300, 700, 500>>

\* The initial_temperature a caller passes.
InitialTemperatures == {None, Some(350)}

SolverOptionsSet ==
    [max_iter : {None} \cup {Some(k) : k \in 0 .. MaxIterOpt},
     tol : {None, Some(TolOpt)}]

\* SolverOptions::default().
DefaultOptions == [max_iter |-> None, tol |-> None]

UnwrapOr(o, default) == IF IsSome(o) THEN o[1] ELSE default

\* options.unwrap_or(MAX_ITER_CRIT_POINT, TOL_CRIT_POINT).
MaxIter(options) == UnwrapOr(options.max_iter, MAX_ITER_CRIT_POINT)

Tol(options) == UnwrapOr(options.tol, TOL_CRIT_POINT)

\* An EosError: its variant and, for the transparent variants, the error
\* it wraps.
EosErr(variant) == [variant |-> variant, source |-> None]

Abs(x) == IF x < 0 THEN -x ELSE x

Sgn(x) == IF x < 0 THEN -1 ELSE IF x > 0 THEN 1 ELSE 0

RECURSIVE GCD(_, _)
GCD(a, b) == IF b = 0 THEN a ELSE GCD(b, a % b)

\* The vector (a/q, b/q) in lowest terms, q > 0.
Frac2(a, b, q) ==
    LET g == GCD(GCD(Abs(a), Abs(b)), q)
    IN  [a |-> a \div g, b |-> b \div g, q |-> q \div g]

(* The Newton matrix h = m / s (m an integer matrix <<h00, h01, h10, h11>>)*)
(* and LU::new(h)?.solve(&res): an error when h is singular, h^-1 res      *)
(* otherwise.                                                              *)
LUSolve(h, res) ==
    LET det == h.m[1] * h.m[4] - h.m[2] * h.m[3]
    IN  IF det = 0 THEN Err(EosErr("LinAlgError"))
        ELSE Ok(Frac2(Sgn(det) * h.s * (h.m[4] * res[1] - h.m[2] * res[2]),
                      Sgn(det) * h.s * (h.m[1] * res[2] - h.m[3] * res[1]),
                      Abs(det)))

\* norm(&res) < tol.
Converged(res, tol) == res[1] * res[1] + res[2] * res[2] < tol * tol

\* `if delta[0].abs() > 0.25 * t { delta *= 0.25 * t / delta[0].abs() }`.
ReduceT(delta, t) ==
    IF 4 * Abs(delta.a) > t * delta.q
    THEN Frac2(delta.a * t, delta.b * t, 4 * Abs(delta.a))
    ELSE delta

\* `if delta[1].abs() > 0.03 * max_density
\*     { delta *= 0.03 * max_density / delta[1].abs() }`.
ReduceRho(delta, max_density) ==
    IF 100 * Abs(delta.b) > 3 * max_density * delta.q
    THEN Frac2(3 * max_density * delta.a, 3 * max_density * delta.b,
               100 * Abs(delta.b))
    ELSE delta

\* A step reduction that leaves the density reduction out.
ReduceStepTOnly(delta, t, max_density) ==
    ReduceT(delta, t)

\* "reduce step if necessary": both reductions, in the order of the code.
ReduceStep(delta, t, max_density) ==
    ReduceRho(ReduceT(delta, t), max_density)

\* `rho -= delta[1]; rho = f64::max(rho, 1e-4 * max_density)`, as a
\* fraction over 10000 * delta.q.
FloorRho(rho, delta, max_density) ==
    LET raw == 10000 * (rho * delta.q - delta.b)
        low == max_density * delta.q
    IN  IF raw < low THEN low ELSE raw

\* The iterate the step was computed at.
IterateBeforeStep(t, rho, delta, max_density) ==
    [exact |-> TRUE, t |-> t, rho |-> rho]

\* The iterate after the step: t - delta[0] and the floored density, with
\* whether both are integers.
ApplyStep(t, rho, delta, max_density) ==
    LET f == FloorRho(rho, delta, max_density)
        d == 10000 * delta.q
    IN  [exact |-> delta.a % delta.q = 0 /\ f % d = 0,
         t |-> t - delta.a \div delta.q,
         rho |-> f \div d]

\* State::new_nvt(eos, t, n / rho, moles).
NewNvt(t, rho) ==
    IF t > 0 /\ rho > 0 THEN Ok([temperature |-> t, density |-> rho])
    ELSE Err(EosErr("InvalidState"))

(* The values of the Newton matrix and of the residual that the equation   *)
(* of state produces at an iterate.                                        *)
HUnit == [m |-> <<1, 0, 0, 1>>, s |-> 1]

HFlat == [m |-> <<1, 0, 0, 1>>, s |-> 100]

HSingular == [m |-> <<1, 1, 1, 1>>, s |-> 1]

SmallResiduals == {<<0, 0>>, <<6, 0>>, <<-6, 0>>, <<0, 6>>, <<0, -6>>}

Residuals ==
    SmallResiduals
    \cup {<<0, 9>>, <<0, 10>>, <<0, -10>>, <<10, 0>>, <<-10, 0>>, <<2, 13>>}

NewtonData ==
    ({HUnit} \X SmallResiduals) \cup ({HFlat} \X Residuals)
    \cup {<<HSingular, <<10, 0>>>>}

\* The calls of State::critical_point the model follows: the trial
\* temperatures are followed with an explicit max_iter.
CritCalls ==
    {c \in [fn : {"critical_point"}, initial_temperature : InitialTemperatures,
            options : SolverOptionsSet, max_density : MaxDensities] :
       IsSome(c.initial_temperature) \/ IsSome(c.options.max_iter)}

\* The calls of critical_point_binary_t and critical_point_binary_p.
BinaryCalls ==
    [fn : {"critical_point_binary"}, tp : {"Temperature", "Pressure"},
     options : SolverOptionsSet]

Attempt(t0) == [t0 |-> t0, res |-> None, evals |-> 0, conv |-> FALSE]

\* No iteration has run yet.
NoStep ==
    [t |-> 0, rho |-> 0, h |-> [m |-> <<0, 0, 0, 0>>, s |-> 1], res |-> <<0, 0>>,
     raw |-> Frac2(0, 0, 1), delta |-> Frac2(0, 0, 1), ft |-> 0, frho |-> 0]

\* The state of the critical-point solver while another component runs.
CIdle ==
    /\ c_pc = "idle"
    /\ c_call = [fn |-> "none"]
    /\ c_trial = 0
    /\ c_i = 0
    /\ c_t = 0
    /\ c_rho = 0
    /\ c_attempts = << >>
    /\ c_last = NoStep
    /\ c_conv = FALSE
    /\ c_inner = None
    /\ c_result = None

CInit ==
    /\ c_pc = "start"
    /\ c_call \in CritCalls \cup BinaryCalls
    /\ c_trial = 0
    /\ c_i = 0
    /\ c_t = 0
    /\ c_rho = 0
    /\ c_attempts = << >>
    /\ c_last = NoStep
    /\ c_conv = FALSE
    /\ c_inner = None
    /\ c_result = None

\* The return of the outermost call.
CritReturn(r) ==
    /\ c_pc' = "done"
    /\ c_result' = Some(r)

\* The call critical_point_hkm(eos, &moles, t0, options) is entered.
HkmCall(trial, t0) ==
    /\ c_pc' = "hkm_setup"
    /\ c_trial' = trial
    /\ c_attempts' = Append(c_attempts, Attempt(t0))

(* State::critical_point up to the first critical_point_hkm call:          *)
(* validate_moles, then the caller's initial temperature or the first      *)
(* trial temperature.                                                      *)
CritBegin ==
    /\ c_pc = "start"
    /\ c_call.fn = "critical_point"
    /\ UNCHANGED <<c_call, c_i, c_t, c_rho, c_last, c_conv>>
    /\ \E moles \in {Ok("moles"), Err(EosErr("IncompatibleComponents"))} :
         IF ~moles.ok
         THEN /\ CritReturn(moles)
              /\ UNCHANGED <<c_trial, c_attempts>>
         ELSE /\ IF IsSome(c_call.initial_temperature)
                 THEN HkmCall(0, c_call.initial_temperature[1])
                 ELSE HkmCall(1, TrialTemperatures[1])
              /\ UNCHANGED c_result

Finished(att, r, evals, conv) ==
    [att EXCEPT ![Len(att)] = [@ EXCEPT !.res = Some(r), !.evals = evals,
                                        !.conv = conv]]

\* A loop over the trial temperatures that returns the error of the last
\* trial.
HkmReturnLastError(r, evals, conv) ==
    LET att == Finished(c_attempts, r, evals, conv)
    IN  IF c_trial = 0 \/ r.ok \/ c_trial >= Len(TrialTemperatures)
        THEN /\ CritReturn(r)
             /\ c_attempts' = att
             /\ UNCHANGED c_trial
        ELSE /\ c_pc' = "hkm_setup"
             /\ c_trial' = c_trial + 1
             /\ c_attempts' = Append(att, Attempt(TrialTemperatures[c_trial + 1]))
             /\ UNCHANGED c_result

(* critical_point_hkm returns r to State::critical_point: with a caller's  *)
(* initial temperature r is returned; in the loop over the trial           *)
(* temperatures an Ok is returned, an Err starts the next trial, and       *)
(* after the last trial NotConverged is returned.                          *)
HkmReturn(r, evals, conv) ==
    LET att == Finished(c_attempts, r, evals, conv)
    IN  IF c_trial = 0 \/ r.ok
        THEN /\ CritReturn(r)
             /\ c_attempts' = att
             /\ UNCHANGED c_trial
        ELSE IF c_trial < Len(TrialTemperatures)
        THEN /\ c_pc' = "hkm_setup"
             /\ c_trial' = c_trial + 1
             /\ c_attempts' = Append(att, Attempt(TrialTemperatures[c_trial + 1]))
             /\ UNCHANGED c_result
        ELSE /\ CritReturn(Err(EosErr("NotConverged")))
             /\ c_attempts' = att
             /\ UNCHANGED c_trial

\* The temperature the running attempt was called with.
AttemptT0 == c_attempts[Len(c_attempts)].t0

(* critical_point_hkm before its loop: the options, the reduced            *)
(* temperature, max_density and rho = 0.3 * max_density.                   *)
HkmSetup ==
    /\ c_pc = "hkm_setup"
    /\ UNCHANGED <<c_call, c_last>>
    /\ \E setup \in {Ok("reduced"), Err(EosErr("QuantityError"))} :
         IF ~setup.ok
         THEN /\ HkmReturn(setup, 0, FALSE)
              /\ UNCHANGED <<c_i, c_t, c_rho, c_conv>>
         ELSE /\ c_pc' = "hkm"
              /\ c_t' = AttemptT0
              /\ c_rho' = (3 * c_call.max_density) \div 10
              /\ c_i' = 0
              /\ c_conv' = FALSE
              /\ UNCHANGED <<c_trial, c_attempts, c_result>>

\* A loop that runs one iteration more than `for i in 1..=max_iter`.
HkmLoopOneMore(i, max_iter) == i <= max_iter

\* `for i in 1..=max_iter`, i iterations being done.
HkmLoopContinues(i, max_iter) == i < max_iter

(* The last iteration: the iterate (t, rho) it started from, the Newton    *)
(* matrix h and the residual res evaluated there, the Newton step raw of   *)
(* the LU solve, the step delta that was applied, and the iterate after it *)
(* as fractions, ft over delta.q and frho over 10000 * delta.q.            *)
StepRecord(t, rho, h, res, raw, delta, max_density) ==
    [t |-> t, rho |-> rho, h |-> h, res |-> res, raw |-> raw, delta |-> delta,
     ft |-> t * delta.q - delta.a,
     frho |-> FloorRho(rho, delta, max_density)]

(* One iteration of critical_point_hkm: the residual and the Newton        *)
(* matrix, the LU solve, the reduced step, its application and the         *)
(* convergence test.                                                       *)
HkmIterate ==
    /\ c_pc = "hkm"
    /\ HkmLoopContinues(c_i, MaxIter(c_call.options))
    /\ \E nd \in NewtonData :
         LET res == nd[2]
             lu == LUSolve(nd[1], res)
         IN  IF ~lu.ok
             THEN /\ HkmReturn(lu, c_i + 1, FALSE)
                  /\ c_i' = c_i + 1
                  /\ UNCHANGED <<c_call, c_t, c_rho, c_last, c_conv>>
             ELSE LET delta == ReduceStep(lu.val, c_t, c_call.max_density)
                      nx == ApplyStep(c_t, c_rho, delta, c_call.max_density)
                  IN  /\ c_last' = StepRecord(c_t, c_rho, nd[1], res, lu.val, delta,
                                           c_call.max_density)
                      /\ UNCHANGED c_call
                      /\ IF ~nx.exact \/ nx.rho > MaxRho
                         THEN \* the run leaves the integers: it is not followed
                              /\ c_pc' = "unfollowed"
                              /\ c_trial' = 0
                              /\ c_i' = 0
                              /\ c_t' = 0
                              /\ c_rho' = 0
                              /\ c_attempts' = << >>
                              /\ c_conv' = FALSE
                              /\ c_result' = None
                         ELSE /\ c_i' = c_i + 1
                              /\ c_t' = nx.t
                              /\ c_rho' = nx.rho
                              /\ IF Converged(res, Tol(c_call.options))
                                 THEN /\ c_conv' = TRUE
                                      /\ HkmReturn(NewNvt(nx.t, nx.rho), c_i + 1, TRUE)
                                 ELSE UNCHANGED <<c_pc, c_conv, c_trial, c_attempts,
                                                  c_result>>

\* The loop is over: `Err(EosError::NotConverged(..))`.
HkmExhausted ==
    /\ c_pc = "hkm"
    /\ ~HkmLoopContinues(c_i, MaxIter(c_call.options))
    /\ HkmReturn(Err(EosErr("NotConverged")), c_i, FALSE)
    /\ UNCHANGED <<c_call, c_i, c_t, c_rho, c_last, c_conv>>

(***************************************************************************)
(* critical_point_binary: the Brent search of the argmin Executor over the *)
(* composition x with the cost function CritOp, then the critical point at *)
(* the composition found.                                                  *)
(***************************************************************************)

(* What State::critical_point(eos, Some(&moles), None, default) returns to *)
(* its caller: a state, the error of validate_moles, or NotConverged after *)
(* the trial temperatures.                                                 *)
InnerResults ==
    {Ok("state"), Err(EosErr("NotConverged")),
     Err(EosErr("IncompatibleComponents"))}

\* to_reduced of the difference to the target: its sign, or the unit error.
ReducedResults == {Ok(-1), Ok(1), Err(EosErr("QuantityError"))}

\* The `?` in a function that returns argmin's Error (anyhow::Error): the
\* EosError becomes the source of an anyhow error.
IntoAnyhow(e) == [variant |-> "anyhow", source |-> Some(e)]

\* An error raised by argmin itself.
ArgminInvalidParameter == [variant |-> "anyhow", source |-> Some("InvalidParameter")]

\* `ArgminError(#[from] ArgminError)`: the `?` on Executor::run().
FromArgminError(e) == [variant |-> "ArgminError", source |-> Some(e)]

\* CritOp::apply.
CritOpApply(inner, reduced) ==
    IF ~inner.ok THEN Err(IntoAnyhow(inner.err))
    ELSE IF ~reduced.ok THEN Err(IntoAnyhow(reduced.err))
    ELSE reduced

\* The options of the nested State::critical_point of CritOp::apply and of
\* the final solve: `SolverOptions::default()`.
InnerOptions == DefaultOptions

\* A nested call of State::critical_point: where it is made, the options
\* it runs with and its result.
InnerCall(at, r) == Some([at |-> at, options |-> InnerOptions, res |-> r])

\* `.run()?` on an Err of the Executor.
RunFails(e) ==
    /\ CritReturn(Err(FromArgminError(e)))
    /\ UNCHANGED c_i

(* Executor::run, the initialisation of Brent: the cost at both ends of    *)
(* the interval, which have to bracket a root.                             *)
BrentInit ==
    /\ c_pc = "start"
    /\ c_call.fn = "critical_point_binary"
    /\ UNCHANGED <<c_call, c_trial, c_t, c_rho, c_attempts, c_last, c_conv>>
    /\ \E i1 \in InnerResults, i2 \in InnerResults,
          r1 \in ReducedResults, r2 \in ReducedResults :
         LET fa == CritOpApply(i1, r1)
             fb == CritOpApply(i2, r2)
         IN  IF ~fa.ok
             THEN /\ RunFails(fa.err)
                  /\ c_inner' = InnerCall("apply", i1)
             ELSE IF ~fb.ok
             THEN /\ RunFails(fb.err)
                  /\ c_inner' = InnerCall("apply", i2)
             ELSE IF fa.val * fb.val > 0
             THEN /\ RunFails(ArgminInvalidParameter)
                  /\ c_inner' = InnerCall("apply", i2)
             ELSE /\ c_pc' = "brent"
                  /\ c_i' = 0
                  /\ c_inner' = InnerCall("apply", i2)
                  /\ UNCHANGED c_result

(* One iteration of the Executor, below max_iters: Brent evaluates the     *)
(* cost once and may reach its tolerance.                                  *)
BrentIterate ==
    /\ c_pc = "brent"
    /\ c_i < MaxIter(c_call.options)
    /\ UNCHANGED <<c_call, c_trial, c_t, c_rho, c_attempts, c_last>>
    /\ \E inner \in InnerResults, reduced \in ReducedResults, stop \in BOOLEAN :
         LET f == CritOpApply(inner, reduced)
         IN  /\ c_inner' = InnerCall("apply", inner)
             /\ IF ~f.ok
                THEN /\ RunFails(f.err)
                     /\ UNCHANGED c_conv
                ELSE /\ c_i' = c_i + 1
                     /\ c_conv' = stop
                     /\ c_pc' = IF stop THEN "brent_done" ELSE "brent"
                     /\ UNCHANGED c_result

\* The Executor stops at max_iters; that is not an error.
BrentMaxIters ==
    /\ c_pc = "brent"
    /\ c_i >= MaxIter(c_call.options)
    /\ c_pc' = "brent_done"
    /\ UNCHANGED <<c_call, c_trial, c_i, c_t, c_rho, c_attempts, c_last, c_conv,
                   c_inner, c_result>>

\* The critical point at best_param, returned as it is.
BinaryFinal ==
    /\ c_pc = "brent_done"
    /\ UNCHANGED <<c_call, c_trial, c_i, c_t, c_rho, c_attempts, c_last, c_conv>>
    /\ \E inner \in InnerResults :
         /\ c_inner' = InnerCall("final", inner)
         /\ CritReturn(inner)

DIdle ==
    /\ d_pc = "idle"
    /\ d_call = [fn |-> "none"]
    /\ d_vec = << >>
    /\ d_warm = NoWarm
    /\ d_i = 0
    /\ d_n = 0
    /\ d_saved = << >>
    /\ d_loop = Loop(1, TRUE, FALSE)
    /\ d_log = << >>
    /\ d_result = None

CNext ==
    \/ CritBegin /\ UNCHANGED <<dvars, hvars, gvars, pvars, c_inner>>
    \/ HkmSetup /\ UNCHANGED <<dvars, hvars, gvars, pvars, c_inner>>
    \/ HkmIterate /\ UNCHANGED <<dvars, hvars, gvars, pvars, c_inner>>
    \/ HkmExhausted /\ UNCHANGED <<dvars, hvars, gvars, pvars, c_inner>>
    \/ BrentInit /\ UNCHANGED <<dvars, hvars, gvars, pvars>>
    \/ BrentIterate /\ UNCHANGED <<dvars, hvars, gvars, pvars>>
    \/ BrentMaxIters /\ UNCHANGED <<dvars, hvars, gvars, pvars>>
    \/ BinaryFinal /\ UNCHANGED <<dvars, hvars, gvars, pvars>>

(***************************************************************************)
(* Properties of State::critical_point and critical_point_hkm.             *)
(***************************************************************************)

\* A call of State::critical_point without an initial temperature.
Trials ==
    /\ c_call.fn = "critical_point"
    /\ c_call.initial_temperature = None

AttemptFailed(a) == IsSome(a.res) /\ ~a.res[1].ok

\* The attempts so far were started at the first temperatures of order, each
\* after the one before it had failed, and an Ok that State::critical_point
\* returns is the Ok of the last attempt, which converged.
TrialsFollow(order) ==
    /\ Len(c_attempts) <= Len(order)
    /\ \A k \in 1 .. Len(c_attempts) : c_attempts[k].t0 = order[k]
    /\ \A k \in 1 .. Len(c_attempts) - 1 : AttemptFailed(c_attempts[k])
    /\ (c_pc = "done" /\ c_result[1].ok) =>
         /\ c_attempts # << >>
         /\ c_attempts[Len(c_attempts)].res = c_result
         /\ c_attempts[Len(c_attempts)].conv

\* C3 (as stated): without an initial temperature the trial temperatures
\* 300, 500, 700 are attempted in that sequence, a later one only after
\* every earlier one failed, and the first convergent result is returned.
C3_TrialOrder300_500_700 == Trials => TrialsFollow(<<300, 500, 700>>)

\* C3 (amended): without an initial temperature the trial temperatures are
\* attempted in the sequence 300, 700, 500, a later one only after every
\* earlier one failed, and the first convergent result is returned.
C3_TrialOrder300_700_500 == Trials => TrialsFollow(<<300, 700, 500>>)

\* The third trial converged after the first two had failed.
C3_Witness ==
    /\ Trials
    /\ c_pc = "done"
    /\ Len(c_attempts) = 3
    /\ c_result[1].ok
    /\ c_attempts[3].t0 = 500

\* The finished runs of critical_point_hkm.
FinishedAttempts == {k \in 1 .. Len(c_attempts) : IsSome(c_attempts[k].res)}

ErrVariant(a) == a.res[1].err.variant

\* C4 (as stated): a critical_point_hkm run that reached its loop evaluates
\* the residual at most max_iter times, returns a state only if an
\* evaluated residual norm was below the tolerance, and returns
\* NotConverged otherwise.
C4_NotConvergedOtherwise ==
    \A k \in FinishedAttempts :
        LET a == c_attempts[k]
        IN  /\ a.evals <= MaxIter(c_call.options)
            /\ a.res[1].ok => a.conv
            /\ (~a.res[1].ok /\ ErrVariant(a) # "QuantityError")
                 => ErrVariant(a) = "NotConverged"

\* C4 (amended): critical_point_hkm evaluates the residual at most max_iter
\* times (default 50); it returns a state only if the residual norm of the
\* last evaluation was below the tolerance; it returns NotConverged exactly
\* when max_iter evaluations (none for max_iter = 0) passed without
\* convergence; its other failures are the errors of the setup and of the
\* LU decomposition, which it passes on.
C4_Budget ==
    /\ c_pc = "hkm" => c_i <= MaxIter(c_call.options)
    /\ \A k \in FinishedAttempts :
        LET a == c_attempts[k]
        IN  /\ a.evals <= MaxIter(c_call.options)
            /\ a.res[1].ok => (a.conv /\ a.evals >= 1)
            /\ ~a.res[1].ok =>
                 /\ ~a.conv
                 /\ ErrVariant(a) \in {"NotConverged", "LinAlgError", "QuantityError"}
                 /\ ErrVariant(a) = "NotConverged" => a.evals = MaxIter(c_call.options)
                 /\ ErrVariant(a) = "LinAlgError" => a.evals >= 1
                 /\ ErrVariant(a) = "QuantityError" => a.evals = 0

\* The default budget of 50 evaluations was used up without convergence.
C4_Witness ==
    /\ c_pc = "done"
    /\ c_call.options = DefaultOptions
    /\ Len(c_attempts) = 1
    /\ c_attempts[1].evals = 50
    /\ ~c_result[1].ok
    /\ c_result[1].err.variant = "NotConverged"

\* C5: in every iteration of critical_point_hkm that starts from a positive
\* temperature, the applied step has a temperature component of at most 25%
\* of the temperature and a density component of at most 3% of the maximum
\* density, the density after the step is at least 1e-4 times the maximum
\* density, and the temperature after the step is positive.
C5_StepDamping ==
    (c_last # NoStep /\ c_last.t > 0) =>
        LET d == c_last.delta
        IN  /\ 4 * Abs(d.a) <= c_last.t * d.q
            /\ 100 * Abs(d.b) <= 3 * c_call.max_density * d.q
            /\ c_last.frho >= c_call.max_density * d.q
            /\ c_last.ft > 0

\* An iteration in which both reductions changed the Newton step.
C5_Witness ==
    /\ c_last # NoStep
    /\ c_last.t > 0
    /\ ReduceT(c_last.raw, c_last.t) # c_last.raw
    /\ c_last.delta # ReduceT(c_last.raw, c_last.t)
    /\ c_last.delta.a # 0

\* An inner critical-point solve of the composition search did not converge.
InnerNotConverged ==
    /\ c_call.fn = "critical_point_binary"
    /\ c_pc = "done"
    /\ c_inner = InnerCall("apply", Err(EosErr("NotConverged")))

\* C10 (as stated): when an inner critical-point solve of the composition
\* search does not converge, critical_point_binary fails with NotConverged,
\* the error of State::critical_point.
C10_SameErrorClass ==
    InnerNotConverged =>
        /\ ~c_result[1].ok
        /\ c_result[1].err.variant = "NotConverged"

(***************************************************************************)
(* PhaseEquilibrium::heteroazeotrope_t and heteroazeotrope_p.  Reduced     *)
(* chemical potentials, pressures and the tolerance are integers in units  *)
(* of 1e-9, so that the default tolerance 1e-8 is 10; partial densities    *)
(* and temperatures are integers.                                          *)
(***************************************************************************)

MAX_ITER_HETERO == 50

TOL_HETERO == 10

\* The temperature given to heteroazeotrope_t.
Temperatures == {3}

\* The pressure given to heteroazeotrope_p.
Pressures == {5}

\* The temperatures of the two bubble points at the given pressure.
BubbleTemperatures == {2, 4}

\* The partial densities of every phase of the initial guess.
InitialRho == <<1, 1>>

HeteroCalls ==
    [fn : {"heteroazeotrope_t"}, temperature : Temperatures,
     options : SolverOptionsSet]
    \cup [fn : {"heteroazeotrope_p"}, pressure : Pressures,
          options : SolverOptionsSet]

FixedT(call) == call.fn = "heteroazeotrope_t"

(* The chemical potentials and the pressure that the equation of state     *)
(* gives at a state.                                                       *)
Props(mu, p) == [mu |-> mu, p |-> p]

AtRest == Props(<<0, 0>>, 5)

\* The properties of vapor, liquid 1 and liquid 2 of an iterate.
TripleProps ==
    {<<AtRest, AtRest, AtRest>>,
     <<AtRest, Props(<<6, 0>>, 5), AtRest>>,
     <<AtRest, Props(<<9, 0>>, 5), AtRest>>,
     <<Props(<<0, 0>>, 15), AtRest, AtRest>>,
     <<AtRest, Props(<<6, 6>>, 5), Props(<<6, 0>>, 5)>>}

\* A State: temperature, partial densities and the properties derived.
PhaseState(t, rho, props) ==
    [temperature |-> t, partial_density |-> rho, mu |-> props.mu, p |-> props.p]

\* The residual of heteroazeotrope_t.
ResidualT(v, l1, l2) ==
    <<l1.mu[1] - v.mu[1], l1.mu[2] - v.mu[2],
      l2.mu[1] - v.mu[1], l2.mu[2] - v.mu[2],
      l1.p - v.p, l2.p - v.p>>

\* A fixed-pressure residual without the vapor pressure.
ResidualPLiquids(v, l1, l2, p) ==
    <<l1.mu[1] - v.mu[1], l1.mu[2] - v.mu[2],
      l2.mu[1] - v.mu[1], l2.mu[2] - v.mu[2],
      l1.p - p, l2.p - p>>

\* The residual of heteroazeotrope_p.
ResidualP(v, l1, l2, p) ==
    <<l1.mu[1] - v.mu[1], l1.mu[2] - v.mu[2],
      l2.mu[1] - v.mu[1], l2.mu[2] - v.mu[2],
      l1.p - p, l2.p - p, v.p - p>>

Residual(call, v, l1, l2) ==
    IF FixedT(call) THEN ResidualT(v, l1, l2)
    ELSE ResidualP(v, l1, l2, call.pressure)

RECURSIVE SumSq(_)
SumSq(s) == IF s = << >> THEN 0 ELSE s[1] * s[1] + SumSq(Tail(s))

\* norm(&res) < options.tol.unwrap_or(TOL_HETERO).
HeteroConverged(res, options) ==
    LET tol == UnwrapOr(options.tol, TOL_HETERO)
    IN  SumSq(res) < tol * tol

(* The Newton steps dx that the LU solve gives: the densities of liquid 1, *)
(* of liquid 2 and of the vapor, and the temperature (used at fixed        *)
(* pressure only).                                                         *)
DxSet ==
    {<<0, 0, 0, 0, 0, 0, 0>>,
     <<1, 0, 0, 0, 0, 0, 0>>,
     <<2, 0, 0, 0, 0, 0, 0>>,
     <<0, 0, 0, 2, 0, 0, 0>>,
     <<0, 0, 0, 0, 1, 0, 1>>,
     <<0, 0, 0, 0, 0, 2, 0>>,
     <<0, 0, 0, 0, 0, 0, 2>>}

\* LU::new(jacobian)?.solve(&res).
HeteroLU == {Err(EosErr("LinAlgError"))} \cup {Ok(dx) : dx \in DxSet}

\* "apply Newton step": the updated partial densities and temperature.
NewtonUpdate(call, v, l1, l2, dx) ==
    [rho_l1 |-> <<l1.partial_density[1] - dx[1], l1.partial_density[2] - dx[2]>>,
     rho_l2 |-> <<l2.partial_density[1] - dx[3], l2.partial_density[2] - dx[4]>>,
     rho_v |-> <<v.partial_density[1] - dx[5], v.partial_density[2] - dx[6]>>,
     t |-> IF FixedT(call) THEN call.temperature ELSE v.temperature - dx[7]]

\* A sign test that lets -1 pass.
IsBelowMinusOne(x) == x < -1

\* f64::is_sign_negative of a difference of two finite numbers.
IsSignNegative(x) == x < 0

\* "check for negative densities" (and temperatures at fixed pressure).
Rejected(call, u) ==
    \E i \in 1 .. 2 :
        \/ IsSignNegative(u.rho_l1[i])
        \/ IsSignNegative(u.rho_l2[i])
        \/ IsSignNegative(u.rho_v[i])
        \/ (~FixedT(call) /\ IsSignNegative(u.t))

\* The values of an update that the sign test reads.
UpdateValues(call, u) ==
    {u.rho_l1[i] : i \in 1 .. 2} \cup {u.rho_l2[i] : i \in 1 .. 2}
    \cup {u.rho_v[i] : i \in 1 .. 2}
    \cup (IF FixedT(call) THEN {} ELSE {u.t})

(* StateBuilder::new(eos).temperature(t).partial_density(rho).build() for  *)
(* the three phases: states for positive values; with a value of zero      *)
(* either states or InvalidState.                                          *)
BuildOutcomes(call, u) ==
    {Ok("states")}
    \cup (IF \E x \in UpdateValues(call, u) : x = 0
          THEN {Err(EosErr("InvalidState"))} ELSE {})

\* A loop that runs one iteration more than `for _ in 0..max_iter`.
HeteroLoopOneMore(k, max_iter) == k <= max_iter

\* `for _ in 0..options.max_iter.unwrap_or(MAX_ITER_HETERO)`, k iterations
\* being done.
HeteroLoopContinues(k, max_iter) == k < max_iter

HeteroMaxIter(options) == UnwrapOr(options.max_iter, MAX_ITER_HETERO)

NoUpdate == [rho_l1 |-> << >>, rho_l2 |-> << >>, rho_v |-> << >>, t |-> 0]

\* The state of the heteroazeotrope solver while another component runs.
HIdle ==
    /\ h_pc = "idle"
    /\ h_call = [fn |-> "none"]
    /\ h_k = 0
    /\ h_x = << >>
    /\ h_seen = FALSE
    /\ h_upd = NoUpdate
    /\ h_setup = << >>
    /\ h_result = None

HInit ==
    /\ h_pc = "start"
    /\ h_call \in HeteroCalls
    /\ h_k = 0
    /\ h_x = << >>
    /\ h_seen = FALSE
    /\ h_upd = NoUpdate
    /\ h_setup = << >>
    /\ h_result = None

HeteroReturn(r) ==
    /\ h_pc' = "done"
    /\ h_result' = Some(r)

\* The errors of the bubble points and of State::new_npt.
SetupErrors == {Err(EosErr("NotConverged")), Err(EosErr("IterationFailed"))}

\* A call made for the initial guess: the bubble point of the liquid of
\* composition x_init.0 (x = 1) or x_init.1 (x = 2), or State::new_npt of
\* the vapor (x = 0).
SetupCall(fn, x, res) == [fn |-> fn, x |-> x, res |-> res]

BubblePoints(call, x) ==
    {SetupCall("bubble_point", x, Ok(t)) :
        t \in (IF FixedT(call) THEN {call.temperature} ELSE BubbleTemperatures)}
    \cup {SetupCall("bubble_point", x, e) : e \in SetupErrors}

NewNpt == {SetupCall("new_npt", 0, r) : r \in {Ok("vapor")} \cup SetupErrors}

\* A setup that makes all three calls whatever their results.
SetupCallsAll(b1, b2, v) == <<b1, b2, v>>

\* The `?` on each of the three calls: the calls made up to the first
\* failure.
SetupCalls(b1, b2, v) ==
    IF ~b1.res.ok THEN <<b1>>
    ELSE IF ~b2.res.ok THEN <<b1, b2>>
    ELSE <<b1, b2, v>>

(* The initial guess: the liquids of two bubble points and a vapor at the  *)
(* mean of their vapor temperatures (fixed pressure) or at the given       *)
(* temperature; heteroazeotrope_p reduces the pressure first.              *)
HeteroBegin ==
    /\ h_pc = "start"
    /\ UNCHANGED <<h_call, h_seen, h_upd>>
    /\ \/ /\ ~FixedT(h_call)
          /\ HeteroReturn(Err(EosErr("QuantityError")))
          /\ UNCHANGED <<h_k, h_x, h_setup>>
       \/ \E b1 \in BubblePoints(h_call, 1), b2 \in BubblePoints(h_call, 2),
             v \in NewNpt, pr \in TripleProps :
            LET calls == SetupCalls(b1, b2, v)
                last == calls[Len(calls)].res
                t1 == IF b1.res.ok THEN b1.res.val ELSE 0
                t2 == IF b2.res.ok THEN b2.res.val ELSE 0
                t0 == IF FixedT(h_call) THEN h_call.temperature
                      ELSE (t1 + t2) \div 2
            IN  /\ h_setup' = calls
                /\ IF ~last.ok
                   THEN /\ HeteroReturn(last)
                        /\ UNCHANGED <<h_k, h_x>>
                   ELSE /\ h_x' = <<PhaseState(t0, InitialRho, pr[1]),
                                    PhaseState(t1, InitialRho, pr[2]),
                                    PhaseState(t2, InitialRho, pr[3])>>
                        /\ h_k' = 0
                        /\ h_pc' = "loop"
                        /\ UNCHANGED h_result

(* One pass of the loop: the residual, the convergence test, the Jacobian  *)
(* and its LU solve, the Newton step, the sign test and the new states.    *)
HeteroIterate ==
    /\ h_pc = "loop"
    /\ UNCHANGED h_setup
    /\ HeteroLoopContinues(h_k, HeteroMaxIter(h_call.options))
    /\ UNCHANGED h_call
    /\ LET v == h_x[1]
           l1 == h_x[2]
           l2 == h_x[3]
           res == Residual(h_call, v, l1, l2)
       IN  \/ /\ HeteroReturn(Err(EosErr("QuantityError")))
              /\ UNCHANGED <<h_k, h_x, h_seen, h_upd>>
           \/ IF HeteroConverged(res, h_call.options)
              THEN /\ HeteroReturn(Ok(<<v, l1, l2>>))
                   /\ h_seen' = TRUE
                   /\ UNCHANGED <<h_k, h_x, h_upd>>
              ELSE \E lu \in HeteroLU :
                     IF ~lu.ok
                     THEN /\ HeteroReturn(lu)
                          /\ UNCHANGED <<h_k, h_x, h_seen, h_upd>>
                     ELSE LET u == NewtonUpdate(h_call, v, l1, l2, lu.val)
                          IN  /\ h_upd' = u
                              /\ UNCHANGED h_seen
                              /\ IF Rejected(h_call, u)
                                 THEN /\ HeteroReturn(Err(EosErr("IterationFailed")))
                                      /\ UNCHANGED <<h_k, h_x>>
                                 ELSE \E b \in BuildOutcomes(h_call, u),
                                         pr \in TripleProps :
                                        IF ~b.ok
                                        THEN /\ HeteroReturn(b)
                                             /\ UNCHANGED <<h_k, h_x>>
                                        ELSE /\ h_x' = <<PhaseState(u.t, u.rho_v, pr[1]),
                                                         PhaseState(u.t, u.rho_l1, pr[2]),
                                                         PhaseState(u.t, u.rho_l2, pr[3])>>
                                             /\ h_k' = h_k + 1
                                             /\ UNCHANGED <<h_pc, h_result>>

\* The loop is over: `Err(EosError::NotConverged(..))`.
HeteroExhausted ==
    /\ h_pc = "loop"
    /\ ~HeteroLoopContinues(h_k, HeteroMaxIter(h_call.options))
    /\ HeteroReturn(Err(EosErr("NotConverged")))
    /\ UNCHANGED <<h_call, h_k, h_x, h_seen, h_upd, h_setup>>

HNext ==
    \/ HeteroBegin /\ UNCHANGED <<dvars, cvars, gvars, pvars>>
    \/ HeteroIterate /\ UNCHANGED <<dvars, cvars, gvars, pvars>>
    \/ HeteroExhausted /\ UNCHANGED <<dvars, cvars, gvars, pvars>>

(***************************************************************************)
(* Properties of the heteroazeotrope solver.                               *)
(***************************************************************************)

HDone == h_pc = "done"

HFailedWith(variant) ==
    /\ HDone
    /\ ~h_result[1].ok
    /\ h_result[1].err.variant = variant

\* The loop was entered: the initial guess exists.
HLooped == h_x # << >>

HasUpdate == h_upd # NoUpdate

\* The states of the iterate h_x are the ones of the update u.
BuiltFrom(u) ==
    /\ HLooped
    /\ h_x[1].partial_density = u.rho_v
    /\ h_x[2].partial_density = u.rho_l1
    /\ h_x[3].partial_density = u.rho_l2
    /\ ~FixedT(h_call) => \A j \in 1 .. 3 : h_x[j].temperature = u.t

\* C6 (as stated): a Newton update with a value less than or equal to zero
\* among the updated partial densities, or the updated temperature at fixed
\* pressure, ends the call with IterationFailed, and no state is built from
\* that update.
C6_RejectsNonPositive ==
    (HasUpdate /\ \E x \in UpdateValues(h_call, h_upd) : x <= 0) =>
        /\ HFailedWith("IterationFailed")
        /\ ~BuiltFrom(h_upd)

\* C6 (amended): a Newton update with a negative value among the updated
\* partial densities, or a negative updated temperature at fixed pressure,
\* ends the call with IterationFailed, and no state is built from that
\* update; no other update ends the call with IterationFailed.
C6_RejectsNegative ==
    HasUpdate =>
        /\ (\E x \in UpdateValues(h_call, h_upd) : x < 0) =>
             /\ HFailedWith("IterationFailed")
             /\ ~BuiltFrom(h_upd)
        /\ HFailedWith("IterationFailed") =>
             \E x \in UpdateValues(h_call, h_upd) : x < 0

\* A negative updated temperature ended heteroazeotrope_p.
C6_Witness ==
    /\ HasUpdate
    /\ ~FixedT(h_call)
    /\ h_upd.t < 0
    /\ \A i \in 1 .. 2 :
         h_upd.rho_l1[i] > 0 /\ h_upd.rho_l2[i] > 0 /\ h_upd.rho_v[i] > 0
    /\ HFailedWith("IterationFailed")

\* C7 (as stated): the call ends within max_iter loop passes; it succeeds
\* exactly when one of the first max_iter iterates passes the convergence
\* test, and returns that iterate as (vapor, liquid1, liquid2); otherwise,
\* unless a step was rejected, it returns NotConverged.
C7_NotConvergedOtherwise ==
    /\ h_k <= HeteroMaxIter(h_call.options)
    /\ (HDone /\ HLooped) =>
         IF h_result[1].ok
         THEN /\ h_seen
              /\ h_k < HeteroMaxIter(h_call.options)
              /\ h_result[1].val = h_x
         ELSE /\ ~h_seen
              /\ HFailedWith("IterationFailed") \/ HFailedWith("NotConverged")

\* C7 (amended): the call ends within max_iter loop passes (default 50); it
\* succeeds exactly when one of the first max_iter iterates, the initial
\* guess being iterate 0, passes the convergence test, and returns that
\* iterate as (vapor, liquid1, liquid2); it returns NotConverged exactly
\* when max_iter iterates were tested and none passed; before that a
\* rejected step, a failed LU decomposition, unit conversion or state
\* construction ends it with that error.
C7_Budget ==
    /\ h_k <= HeteroMaxIter(h_call.options)
    /\ (HDone /\ HLooped) =>
         IF h_result[1].ok
         THEN /\ h_seen
              /\ h_k < HeteroMaxIter(h_call.options)
              /\ h_result[1].val = h_x
              /\ HeteroConverged(Residual(h_call, h_x[1], h_x[2], h_x[3]),
                                 h_call.options)
         ELSE /\ ~h_seen
              /\ h_result[1].err.variant \in
                   {"NotConverged", "IterationFailed", "LinAlgError",
                    "QuantityError", "InvalidState"}
              /\ HFailedWith("NotConverged") <=>
                   h_k = HeteroMaxIter(h_call.options)

\* The default budget of 50 iterates was tested without convergence.
C7_Witness ==
    /\ HLooped
    /\ h_call.options = DefaultOptions
    /\ h_k = 50
    /\ HFailedWith("NotConverged")

\* C8: in a returned three-phase equilibrium every chemical-potential
\* difference between a liquid and the vapor is below the tolerance in
\* magnitude; at fixed temperature the pressures of both liquids differ
\* from the vapor pressure by less than the tolerance, at fixed pressure
\* the pressures of both liquids and of the vapor differ from the given
\* pressure by less than the tolerance.
C8_ReturnedWithinTolerance ==
    (HDone /\ h_result[1].ok) =>
        LET v == h_result[1].val[1]
            l1 == h_result[1].val[2]
            l2 == h_result[1].val[3]
            tol == UnwrapOr(h_call.options.tol, TOL_HETERO)
        IN  /\ \A i \in 1 .. 2 :
                 /\ Abs(l1.mu[i] - v.mu[i]) < tol
                 /\ Abs(l2.mu[i] - v.mu[i]) < tol
            /\ IF FixedT(h_call)
               THEN /\ Abs(l1.p - v.p) < tol
                    /\ Abs(l2.p - v.p) < tol
               ELSE /\ Abs(l1.p - h_call.pressure) < tol
                    /\ Abs(l2.p - h_call.pressure) < tol
                    /\ Abs(v.p - h_call.pressure) < tol

\* heteroazeotrope_p returned an iterate after a Newton step, with a
\* chemical-potential difference that is not zero.
C8_Witness ==
    /\ HDone
    /\ h_result[1].ok
    /\ ~FixedT(h_call)
    /\ h_k >= 1
    /\ h_result[1].val[2].mu[1] # h_result[1].val[1].mu[1]

\* C9 (as stated): vapor, liquid1 and liquid2 of a returned three-phase
\* equilibrium have one common temperature, the given one for
\* heteroazeotrope_t, whichever iterate passed the convergence test.
C9_CommonTemperature ==
    (HDone /\ h_result[1].ok) =>
        LET x == h_result[1].val
        IN  /\ x[1].temperature = x[2].temperature
            /\ x[1].temperature = x[3].temperature
            /\ FixedT(h_call) => x[1].temperature = h_call.temperature

SetupFailures == {k \in DOMAIN h_setup : ~h_setup[k].res.ok}

\* C19: the Newton loop of heteroazeotrope_t and heteroazeotrope_p is
\* entered only after the bubble point of x_init.0, the bubble point of
\* x_init.1 and the construction of the initial vapor have succeeded, in
\* that sequence, and it starts from the liquids of the two bubble points;
\* when one of these calls fails no later call is made, its error is the
\* result, and no Newton iteration is performed.
C19_GuessBeforeIteration ==
    /\ HLooped =>
         /\ Len(h_setup) = 3
         /\ SetupFailures = {}
         /\ \A j \in 1 .. 2 :
              h_setup[j].fn = "bubble_point" /\ h_setup[j].x = j
         /\ h_setup[3].fn = "new_npt"
         /\ (h_k = 0 /\ ~FixedT(h_call)) =>
              \A j \in 1 .. 2 : h_x[j + 1].temperature = h_setup[j].res.val
    /\ SetupFailures # {} =>
         /\ SetupFailures = {Len(h_setup)}
         /\ HDone
         /\ h_result = Some(h_setup[Len(h_setup)].res)
         /\ ~HLooped
         /\ h_k = 0
         /\ ~HasUpdate

\* The second bubble point failed after the first had succeeded.
C19_Witness ==
    /\ HDone
    /\ Len(h_setup) = 2
    /\ h_setup[1].res.ok
    /\ HFailedWith("IterationFailed")

\* State::critical_point has returned an error after at least one run of
\* critical_point_hkm.
CritFailed ==
    /\ c_call.fn = "critical_point"
    /\ c_pc = "done"
    /\ ~c_result[1].ok
    /\ c_attempts # << >>

LastAttempt == c_attempts[Len(c_attempts)]

\* C17 (as stated): the error State::critical_point returns is the error of
\* its last Newton attempt, so that a linear-algebra error or a unit error
\* is returned as that kind and NotConverged only for an attempt that used
\* up its iteration budget.
C17_AttemptErrorReturned ==
    CritFailed =>
        /\ c_result = LastAttempt.res
        /\ c_result[1].err.variant = "NotConverged"
             => LastAttempt.evals = MaxIter(c_call.options)

\* C17 (amended): with a caller's initial temperature the error of the
\* single Newton attempt is returned as it is, a linear-algebra error or a
\* unit error as that kind and NotConverged only when the iteration budget
\* was used up; without an initial temperature every failure of an attempt
\* starts the next trial temperature and, after the three trials failed,
\* NotConverged is returned whatever the errors of the attempts were.
C17_TypedWithInitialTemperature ==
    CritFailed =>
        IF IsSome(c_call.initial_temperature)
        THEN /\ Len(c_attempts) = 1
             /\ c_result = LastAttempt.res
             /\ c_result[1].err.variant = "NotConverged"
                  => LastAttempt.evals = MaxIter(c_call.options)
        ELSE /\ Len(c_attempts) = Len(TrialTemperatures)
             /\ \A k \in DOMAIN c_attempts : AttemptFailed(c_attempts[k])
             /\ c_result = Some(Err(EosErr("NotConverged")))

\* The three trials failed, the last one with a singular Newton matrix, and
\* the caller got NotConverged.
C17_Witness ==
    /\ CritFailed
    /\ Trials
    /\ ErrVariant(LastAttempt) = "LinAlgError"
    /\ c_result[1].err.variant = "NotConverged"

\* critical_point_hkm returned a state to State::critical_point, which
\* returned it.
HkmSucceeded ==
    /\ c_call.fn = "critical_point"
    /\ c_pc = "done"
    /\ c_result[1].ok

\* C27: in critical_point_hkm the Newton step of an iteration is applied
\* before the convergence test of that iteration: the state a successful
\* call returns is at the temperature and density after the reduced and
\* floored step of the last iteration, which was computed from the residual
\* that passed the test.
C27_StepBeforeTest ==
    HkmSucceeded =>
        LET st == c_result[1].val
            d == c_last.delta
        IN  /\ c_last # NoStep
            /\ Converged(c_last.res, Tol(c_call.options))
            /\ LUSolve(c_last.h, c_last.res) = Ok(c_last.raw)
            /\ d = ReduceStep(c_last.raw, c_last.t, c_call.max_density)
            /\ st.temperature * d.q = c_last.t * d.q - d.a
            /\ st.density * 10000 * d.q
                   = FloorRho(c_last.rho, d, c_call.max_density)

\* A call returned a state after a second iteration whose residual was
\* not zero and whose step was reduced.
C27_Witness ==
    /\ HkmSucceeded
    /\ c_i = 2
    /\ c_last.res # <<0, 0>>
    /\ c_last.delta # c_last.raw
    /\ c_result[1].val.temperature # c_last.t

\* The panics of the point-count arithmetic: a subtraction below zero, a
\* linspace of a wrapped length, a slice that begins past the end.
ArithmeticPanics ==
    {"panic: attempt to subtract with overflow", "panic: capacity overflow",
     "panic: slice begin 1 is past end of axis"}

\* C30: for every npoints >= 0, 0 and 1 included, PhaseDiagram::pure
\* (npoints - 2 and npoints - 1 on usize) and new_txy/new_pxy with x_lle
\* (branches of npoints / 2 and npoints - npoints / 2 points, each sliced
\* from index 1) neither underflow nor index out of range.
C30_PointArithmetic ==
    (d_pc = "done"
        /\ (d_call.fn = "pure" \/ (d_call.fn = "new_vle" /\ IsSome(d_call.x_lle))))
        => (d_result[1].ok \/ d_result[1].err \notin ArithmeticPanics)

\* C18: a state that State::critical_point returns has a density of at most
\* the maximum density of the equation of state: the density iterate of
\* critical_point_hkm is not above max_density at the iteration that
\* returns.
C18_DensityWithinMax ==
    (c_call.fn = "critical_point" /\ c_pc = "done" /\ c_result[1].ok)
        => /\ c_result[1].val.density <= c_call.max_density
           /\ c_rho <= c_call.max_density

\* C16: every nested solver call of an iterative entry point runs with the
\* options of the caller: the critical-point solves inside
\* critical_point_binary run with the options given to it.
C16_OptionsThreaded ==
    IsSome(c_inner) => c_inner[1].options = c_call.options

\* C11 (as stated): critical_point_binary returns a state only if the
\* composition search reached its tolerance; a search that used up
\* max_iters without reaching it ends the call with an error.
C11_NoStateAfterExhaustedSearch ==
    (c_call.fn = "critical_point_binary" /\ c_pc = "done" /\ c_result[1].ok)
        => c_conv

\* State::critical_point or critical_point_binary is called.
\* The state of the objects and parameters while another component runs.
PIdle ==
    /\ p_pc = "idle"
    /\ p_call = [fn |-> "none"]
    /\ p_obj = << >>
    /\ p_out = << >>

\* Every component but the objects and parameters is at rest.
SolversIdle == DIdle /\ CIdle /\ HIdle /\ GIdle

SolverVars == <<dvars, cvars, hvars, gvars>>

(***************************************************************************)
(* A PhaseEquilibrium in the hands of a caller (python/phase_equilibria.rs):*)
(* the getters of its states and update_chemical_potential.                *)
(***************************************************************************)

MaxCalls == 3

\* A Concrete State: temperature, volume and moles.
ConcreteState(t, v, n) == [temperature |-> t, volume |-> v, moles |-> n]

MolesSet == {<<1, 1>>, <<1, 2>>, <<2, 1>>}

StateSet == {ConcreteState(300, v, n) : v \in {1, 2}, n \in MolesSet}

\* The equilibrium as constructed and as it is now: <<vapor, liquid>>.
EquilibriumInit ==
    /\ p_pc = "ready"
    /\ p_call = [fn |-> "PhaseEquilibrium"]
    /\ \E vapor \in StateSet, liquid \in StateSet :
         p_obj = [built |-> <<vapor, liquid>>, states |-> <<vapor, liquid>>]
    /\ p_out = << >>

\* `PyState(self.0.vapor().clone())`, `PyState(self.0.liquid().clone())`.
GetState(k) ==
    /\ p_pc = "ready"
    /\ Len(p_out) < MaxCalls
    /\ p_out' = Append(p_out, [fn |-> "get", k |-> k, val |-> p_obj.states[k]])
    /\ UNCHANGED <<p_pc, p_call, p_obj>>

GetVapor == GetState(1)

GetLiquid == GetState(2)

(* State::update_chemical_potential on a state the equilibrium holds: the  *)
(* state is overwritten by one of other moles at the same temperature and  *)
(* volume, or, when the iteration fails at once, left as it is.            *)
UpdatedStates(st) ==
    {st} \cup {ConcreteState(st.temperature, st.volume, n) : n \in MolesSet}

(* `slf.borrow_mut().0.update_chemical_potential(chemical_potential)?;     *)
(* Ok(())`: the states of the equilibrium are updated one after the other, *)
(* the caller gets nothing back but the success or the error.              *)
UpdateChemicalPotential ==
    /\ p_pc = "ready"
    /\ Len(p_out) < MaxCalls
    /\ \E vapor \in UpdatedStates(p_obj.states[1]),
          liquid \in UpdatedStates(p_obj.states[2]),
          r \in {Ok(<< >>), Err("NotConverged")} :
         /\ ~r.ok \/ (vapor # p_obj.states[1] /\ liquid # p_obj.states[2])
         /\ p_obj' = [p_obj EXCEPT !.states = <<vapor, liquid>>]
         /\ p_out' = Append(p_out, [fn |-> "update_chemical_potential", val |-> r])
    /\ UNCHANGED <<p_pc, p_call>>

EquilibriumNext ==
    \/ GetVapor /\ UNCHANGED SolverVars
    \/ GetLiquid /\ UNCHANGED SolverVars
    \/ UpdateChemicalPotential /\ UNCHANGED SolverVars

\* C21: the states a PhaseEquilibrium was constructed with keep their
\* temperature, volume and moles whatever operations the caller applies to
\* the equilibrium.
C21_StatesImmutable ==
    p_call.fn = "PhaseEquilibrium" => p_obj.states = p_obj.built

(***************************************************************************)
(* The construction of Peng-Robinson parameters (cubic.rs).                *)
(***************************************************************************)

MaxComponents == 3

MaxLen == 2

\* All sequences over S of length at most n.
SeqsUpTo(S, n) == UNION {[1 .. k -> S] : k \in 0 .. n}

\* PureRecord: an identifier and the optional model record.
PureRecord(id, model_record) == [identifier |-> id, model_record |-> model_record]

PengRobinsonRecord(i) == [tc |-> i, pc |-> i, acentric_factor |-> i]

PureRecords ==
    {PureRecord("1", mr) : mr \in {None, Some(PengRobinsonRecord(1))}}

CubicCalls ==
    [fn : {"new_simple"}, tc : 0 .. MaxLen, pc : 0 .. MaxLen,
     acentric_factor : 0 .. MaxLen, molarweight : 0 .. MaxLen]
    \cup [fn : {"from_records"}, pure_records : SeqsUpTo(PureRecords, MaxComponents),
          binary_records : 0 .. MaxComponents]

CubicInit ==
    /\ p_pc = "start"
    /\ p_call \in CubicCalls
    /\ p_obj = << >>
    /\ p_out = << >>

(* Parameter::from_records of PengRobinsonParameters: the arrays of the    *)
(* model, an entry per record, a panic on a record without model record,   *)
(* and the binary records, a square matrix of dimension binary_records,    *)
(* taken as k_ij as they are.                                              *)
FromRecords(pure_records, binary_records) ==
    IF \E i \in DOMAIN pure_records : pure_records[i].model_record = None
    THEN Err("panic: No Peng-Robinson parameters found")
    ELSE Ok([pure_records |-> pure_records,
             b |-> [i \in DOMAIN pure_records |-> pure_records[i].model_record[1].tc],
             k_ij |-> binary_records])

\* PengRobinsonParameters::new_simple: the lengths of pc, acentric_factor
\* and molarweight against the length of tc, then a record per component.
NewSimple(tc, pc, acentric_factor, molarweight) ==
    IF \E l \in {pc, acentric_factor, molarweight} : l # tc
    THEN Err("IncompatibleParameters")
    ELSE Ok(FromRecords([i \in 1 .. tc |-> PureRecord("1", Some(PengRobinsonRecord(i)))],
                        pc).val)

\* The constructor is called and returns (or panics).
CubicConstruct ==
    /\ p_pc = "start"
    /\ LET r == IF p_call.fn = "new_simple"
                THEN NewSimple(p_call.tc, p_call.pc, p_call.acentric_factor,
                               p_call.molarweight)
                ELSE FromRecords(p_call.pure_records, p_call.binary_records)
       IN  /\ p_out' = <<r>>
           /\ p_obj' = IF r.ok THEN r.val ELSE << >>
           /\ p_pc' = IF r.ok THEN "ready" ELSE "done"
    /\ UNCHANGED p_call

\* An evaluation of the equation of state, compute_max_density: it reads
\* the parameter b of every component.
ComputeMaxDensity ==
    /\ p_pc = "ready"
    /\ p_out' = Append(p_out, Ok([i \in DOMAIN p_obj.pure_records |-> p_obj.b[i]]))
    /\ p_pc' = "done"
    /\ UNCHANGED <<p_call, p_obj>>

\* An evaluation of the equation of state, evaluate_residual: it reads
\* `p.k_ij[(i, j)]` for every pair of components.
EvaluateResidual ==
    /\ p_pc = "ready"
    /\ p_out' = Append(p_out,
                       IF Len(p_obj.pure_records) > p_obj.k_ij
                       THEN Err("panic: index out of bounds")
                       ELSE Ok("helmholtz_energy"))
    /\ p_pc' = "done"
    /\ UNCHANGED <<p_call, p_obj>>

CubicNext ==
    \/ CubicConstruct /\ UNCHANGED SolverVars
    \/ ComputeMaxDensity /\ UNCHANGED SolverVars
    \/ EvaluateResidual /\ UNCHANGED SolverVars

\* A required parameter is absent from the arguments of the call.
ParameterAbsent(call) ==
    IF call.fn = "new_simple"
    THEN \E l \in {call.pc, call.acentric_factor, call.molarweight} : l # call.tc
    ELSE \/ \E i \in DOMAIN call.pure_records :
              call.pure_records[i].model_record = None
         \/ call.binary_records < Len(call.pure_records)

IsErrorValue(r) == ~r.ok /\ r.err \in {"IncompatibleParameters"}

\* C22: when a record has no model record or the parameter arrays differ in
\* length, the constructor of the Peng-Robinson parameters returns an error
\* value, and parameters that were constructed have the parameters of
\* every component, so that no evaluation meets an absent one.
C22_ConstructionError ==
    (p_call.fn \in {"new_simple", "from_records"} /\ p_out # << >>) =>
        /\ ParameterAbsent(p_call) => IsErrorValue(p_out[1])
        /\ p_out[1].ok =>
             \A i \in DOMAIN p_obj.pure_records :
                 p_obj.pure_records[i].model_record # None
        /\ \A k \in 2 .. Len(p_out) : p_out[k].ok

(***************************************************************************)
(* Parameter::subset (parameter/mod.rs), which PengRobinson::subset calls. *)
(***************************************************************************)

MaxList == 3

MaxList2 == 2

\* What records() returns: the pure records and the binary records.
Records(pure_records, binary_records) ==
    [pure_records |-> pure_records, binary_records |-> binary_records]

\* Parameters of three components; the binary record (i, j) is 10 i + j.
OriginalParameters ==
    Records([i \in 1 .. MaxComponents |-> PureRecord(i, Some(PengRobinsonRecord(i)))],
            [i \in 1 .. MaxComponents |-> [j \in 1 .. MaxComponents |-> 10 * i + j]])

\* Component lists: indices from 0, one of them past the last component.
ComponentLists(len, n) == SeqsUpTo(0 .. n, len)

SubsetCalls ==
    [fn : {"subset"},
     component_list : ComponentLists(MaxList, MaxComponents),
     second_list : ComponentLists(MaxList2, MaxComponents - 1)]

SubsetInit ==
    /\ p_pc = "start"
    /\ p_call \in SubsetCalls
    /\ p_obj = OriginalParameters
    /\ p_out = << >>

\* A subset whose binary record (i, j) is the one of (list[j], list[i]).
SubsetTransposed(par, component_list) ==
    LET n == Len(component_list)
    IN  IF \E k \in 1 .. n : component_list[k] >= Len(par.pure_records)
        THEN Err("panic: index out of bounds")
        ELSE Ok(Records(
                 [k \in 1 .. n |-> par.pure_records[component_list[k] + 1]],
                 [i \in 1 .. n |-> [j \in 1 .. n |->
                     par.binary_records[component_list[j] + 1][component_list[i] + 1]]]))

(* Parameter::subset: `pure_records[i].clone()` for the indices of the     *)
(* list, `binary_records[(component_list[i], component_list[j])]`, and     *)
(* from_records of both.                                                   *)
Subset(par, component_list) ==
    LET n == Len(component_list)
    IN  IF \E k \in 1 .. n : component_list[k] >= Len(par.pure_records)
        THEN Err("panic: index out of bounds")
        ELSE Ok(Records(
                 [k \in 1 .. n |-> par.pure_records[component_list[k] + 1]],
                 [i \in 1 .. n |-> [j \in 1 .. n |->
                     par.binary_records[component_list[i] + 1][component_list[j] + 1]]]))

\* parameters.subset(component_list)
SubsetOnce ==
    /\ p_pc = "start"
    /\ LET r == Subset(p_obj, p_call.component_list)
       IN  /\ p_out' = <<r>>
           /\ p_pc' = IF r.ok THEN "ready" ELSE "done"
    /\ UNCHANGED <<p_call, p_obj>>

\* The subset of the subset: result.subset(second_list)
SubsetAgain ==
    /\ p_pc = "ready"
    /\ p_out' = Append(p_out, Subset(p_out[1].val, p_call.second_list))
    /\ p_pc' = "done"
    /\ UNCHANGED <<p_call, p_obj>>

SubsetNext ==
    \/ SubsetOnce /\ UNCHANGED SolverVars
    \/ SubsetAgain /\ UNCHANGED SolverVars

\* The list that picks, from the original, what second picks from the
\* subset of first.
Composed(first, second) == [k \in DOMAIN second |-> first[second[k] + 1]]

\* C24: the subset has the pure record component_list[k] of the original
\* as its record k and the original binary record (component_list[i],
\* component_list[j]) as its entry (i, j), its component count is the
\* length of the list, and the subset of a subset is the subset for the
\* composed list.
C24_SubsetRestricts ==
    (p_call.fn = "subset" /\ p_out # << >> /\ p_out[1].ok) =>
        LET l == p_call.component_list
            r == p_out[1].val
        IN  /\ Len(r.pure_records) = Len(l)
            /\ \A k \in DOMAIN l :
                 r.pure_records[k] = OriginalParameters.pure_records[l[k] + 1]
            /\ \A i, j \in DOMAIN l :
                 r.binary_records[i][j]
                     = OriginalParameters.binary_records[l[i] + 1][l[j] + 1]
            /\ (Len(p_out) = 2 /\ p_out[2].ok) =>
                 p_out[2] = Subset(OriginalParameters,
                                   Composed(l, p_call.second_list))

\* Two different components were taken out of a subset of three, in which
\* the components are not in their original order.
C24_Witness ==
    /\ p_call.fn = "subset"
    /\ Len(p_out) = 2
    /\ p_out[2].ok
    /\ p_call.component_list = <<2, 0, 1>>
    /\ p_call.second_list = <<2, 0>>

(***************************************************************************)
(* ChemicalRecord::new (parameter/chemical_record.rs).                     *)
(***************************************************************************)

MaxSegments == 4

SegmentNames == {"CH3", "CH2"}

BondLists == {None, Some(<< >>), Some(<<<<0, 1>>>>)}

ChemicalRecordCalls ==
    [fn : {"ChemicalRecord::new"}, segments : SeqsUpTo(SegmentNames, MaxSegments),
     bonds : BondLists, build : Builds]

ChemicalRecordInit ==
    /\ p_pc = "start"
    /\ p_call \in ChemicalRecordCalls
    /\ p_obj = << >>
    /\ p_out = << >>

\* The length of the range a..b of usize; a wrapped b (below zero here) is
\* past every length of a list, which -1 stands for.
RangeLen(a, b) == IF b < 0 THEN -1 ELSE IF b > a THEN b - a ELSE 0

\* The length of Iterator::zip of iterators of the lengths l1 and l2.
ZipLen(l1, l2) ==
    IF l1 < 0 THEN l2 ELSE IF l2 < 0 THEN l1 ELSE IF l1 < l2 THEN l1 ELSE l2

\* `(0..segments.len() - 1).zip(1..segments.len()).map(|x| [x.0, x.1])`.
LinearBonds(len, build) ==
    LET last == USub(len, 1, build)
    IN  IF ~last.ok THEN last
        ELSE Ok([k \in 1 .. ZipLen(RangeLen(0, last.val), RangeLen(1, len))
                    |-> <<k - 1, k>>])

\* ChemicalRecord::new: `bonds.unwrap_or_else(..)` and the record.
ChemicalRecordNew ==
    /\ p_pc = "start"
    /\ LET bonds == IF IsSome(p_call.bonds) THEN Ok(p_call.bonds[1])
                    ELSE LinearBonds(Len(p_call.segments), p_call.build)
       IN  IF bonds.ok
           THEN /\ p_obj' = [segments |-> p_call.segments, bonds |-> bonds.val]
                /\ p_out' = <<Ok("ChemicalRecord")>>
           ELSE /\ p_obj' = << >>
                /\ p_out' = <<bonds>>
    /\ p_pc' = "done"
    /\ UNCHANGED p_call

ChemicalRecordNext == ChemicalRecordNew /\ UNCHANGED SolverVars

\* C25: ChemicalRecord::new without bonds returns, for every list of n
\* segments, the empty one included, a record with the n - 1 bonds
\* [i, i + 1], i = 0 .. n - 2, in that order.
C25_LinearBonds ==
    (p_call.fn = "ChemicalRecord::new" /\ p_pc = "done" /\ p_call.bonds = None) =>
        /\ p_out[1].ok
        /\ p_obj.bonds = [k \in 1 .. Len(p_call.segments) - 1 |-> <<k - 1, k>>]

(***************************************************************************)
(* State::critical_point_pure (state/critical_point.rs).                   *)
(***************************************************************************)

MaxPure == 3

CriticalTemperatures == {4, 5}

CriticalPointErrors == {"NotConverged", "IterationFailed"}

CriticalPointPureCalls ==
    [fn : {"critical_point_pure"}, components : 0 .. MaxPure,
     initial_temperature : InitialTemperatures, options : SolverOptionsSet]

CriticalPointPureInit ==
    /\ p_pc = "start"
    /\ p_call \in CriticalPointPureCalls
    /\ p_obj = [calls |-> << >>, results |-> << >>]
    /\ p_out = << >>

\* `Self::critical_point(&Rc::new(eos.subset(&[i])), None, initial_temperature,
\* options)`: the arguments of the call for component i.
CriticalPointCall(i, call) ==
    [eos |-> <<i>>, moles |-> None,
     initial_temperature |-> call.initial_temperature, options |-> call.options]

\* What critical_point can return for a call: a state of the equation of
\* state it was given, or an error.
CriticalPointResults(cp) ==
    {Ok([eos |-> cp.eos, t |-> t]) : t \in CriticalTemperatures}
        \cup {Err(e) : e \in CriticalPointErrors}

RECURSIVE OkValues(_)
OkValues(rs) ==
    IF rs = << >> THEN << >>
    ELSE IF Head(rs).ok THEN <<Head(rs).val>> \o OkValues(Tail(rs))
    ELSE OkValues(Tail(rs))

\* The states that were found, whatever failed.
CollectFound(rs) == Ok(OkValues(rs))

\* `.collect()` into EosResult<Vec<Self>>: the first error, or all states.
Collect(rs) ==
    IF \E k \in 1 .. Len(rs) : ~rs[k].ok
    THEN rs[CHOOSE k \in 1 .. Len(rs) :
                /\ ~rs[k].ok
                /\ \A j \in 1 .. k - 1 : rs[j].ok]
    ELSE Ok(OkValues(rs))

\* One item of `(0..eos.components()).map(..)`, pulled by collect(): the
\* iterator ends with the range or at the first error.
CriticalPointPureStep ==
    /\ p_pc = "start"
    /\ LET i == Len(p_obj.results)
       IN  IF i >= p_call.components
           THEN /\ p_out' = <<Collect(p_obj.results)>>
                /\ p_pc' = "done"
                /\ UNCHANGED p_obj
           ELSE \E r \in CriticalPointResults(CriticalPointCall(i, p_call)) :
                    LET rs == Append(p_obj.results, r)
                    IN  /\ p_obj' = [calls |-> Append(p_obj.calls,
                                                     CriticalPointCall(i, p_call)),
                                     results |-> rs]
                        /\ IF r.ok
                           THEN UNCHANGED <<p_pc, p_out>>
                           ELSE /\ p_out' = <<Collect(rs)>>
                                /\ p_pc' = "done"
    /\ UNCHANGED p_call

CriticalPointPureNext == CriticalPointPureStep /\ UNCHANGED SolverVars

CriticalPointPureDone == p_call.fn = "critical_point_pure" /\ p_pc = "done"

\* C26: critical_point_pure solves component after component on
\* eos.subset([i]), without moles, with the caller's initial temperature and
\* options; when every solve succeeds it returns the states the solves
\* returned, one per component in component order; when a solve fails it
\* returns the error of that solve and no list.
C26_OnePerComponent ==
    CriticalPointPureDone =>
        /\ \A k \in 1 .. Len(p_obj.calls) :
              p_obj.calls[k] = [eos |-> <<k - 1>>, moles |-> None,
                                initial_temperature |-> p_call.initial_temperature,
                                options |-> p_call.options]
        /\ IF \A k \in 1 .. Len(p_obj.results) : p_obj.results[k].ok
           THEN /\ p_out[1].ok
                /\ Len(p_out[1].val) = p_call.components
                /\ \A k \in 1 .. p_call.components :
                      /\ p_out[1].val[k] = p_obj.results[k].val
                      /\ p_out[1].val[k].eos = <<k - 1>>
           ELSE /\ ~p_out[1].ok
                /\ \E k \in 1 .. Len(p_obj.results) :
                      /\ ~p_obj.results[k].ok
                      /\ p_out[1] = p_obj.results[k]

\* Three components, the first two solved and the third failed.
C26_Witness ==
    /\ CriticalPointPureDone
    /\ p_call.components = 3
    /\ p_call.initial_temperature = Some(350)
    /\ Len(p_obj.results) = 3
    /\ p_obj.results[1].ok /\ p_obj.results[2].ok
    /\ p_out = <<Err("NotConverged")>>

(***************************************************************************)
(* Parameter::from_multiple_json (parameter/mod.rs).                       *)
(***************************************************************************)

MaxEntries == 2

MaxSubstances == 2

Substances == {"a", "b"}

\* A record of a json file: `identifier.as_string(search_option)` and the
\* model record.
JsonRecord(id, model_record) == [identifier |-> id, model_record |-> model_record]

\* What `File::open(file)?` and `serde_json::from_reader(reader)?` make of
\* the files of pure records.
PureFiles ==
    {Ok(<<JsonRecord(Some("a"), 1), JsonRecord(Some("b"), 1)>>),
     Ok(<<JsonRecord(Some("c"), 2), JsonRecord(None, 2), JsonRecord(Some("a"), 2)>>),
     Err("FileIO"), Err("Serde")}

BinaryRecord(id1, id2, model_record) ==
    [id1 |-> id1, id2 |-> id2, model_record |-> model_record]

\* The file of binary records, where one is given.
BinaryFiles ==
    {None,
     Some(Ok(<<BinaryRecord(Some("a"), Some("b"), 7),
               BinaryRecord(Some("b"), Some("a"), 8),
               BinaryRecord(None, Some("b"), 6)>>)),
     Some(Ok(<<BinaryRecord(Some("b"), Some("a"), 9),
               BinaryRecord(Some("c"), Some("a"), 5)>>)),
     Some(Err("FileIO"))}

\* `Self::Binary::default()`.
DefaultBinary == 0

JsonCalls ==
    [fn : {"from_multiple_json"},
     input : SeqsUpTo([substances : SeqsUpTo(Substances, MaxSubstances),
                       file : PureFiles], MaxEntries),
     file_binary : BinaryFiles]

EmptyMap == [x \in {} |-> 0]

JsonInit ==
    /\ p_pc = "start"
    /\ p_call \in JsonCalls
    /\ p_obj = [queried |-> << >>, record_map |-> EmptyMap, read |-> 0]
    /\ p_out = << >>

\* HashMap::insert: a value under a key that is there is replaced.
Insert(map, key, value) ==
    [x \in DOMAIN map \cup {key} |-> IF x = key THEN value ELSE map[x]]

InSeq(x, seq) == \E k \in 1 .. Len(seq) : seq[k] = x

\* `substances.iter().try_for_each(|identifier| match queried.insert(..))`:
\* the identifiers are inserted up to the first that is present already.
RECURSIVE QueryAll(_, _)
QueryAll(queried, substances) ==
    IF substances = << >> THEN Ok(queried)
    ELSE IF InSeq(Head(substances), queried) THEN Err("IncompatibleParameters")
    ELSE QueryAll(Append(queried, Head(substances)), Tail(substances))

\* `.filter_map(..).for_each(|(i, r)| { record_map.insert(i, r) })`.
RECURSIVE InsertRecords(_, _)
InsertRecords(map, records) ==
    IF records = << >> THEN map
    ELSE LET r == Head(records)
         IN  InsertRecords(IF IsSome(r.identifier)
                           THEN Insert(map, r.identifier[1], r) ELSE map,
                           Tail(records))

\* The binary records collected into a HashMap, those without both
\* identifiers left out.
RECURSIVE CollectBinary(_, _)
CollectBinary(map, records) ==
    IF records = << >> THEN map
    ELSE LET br == Head(records)
         IN  CollectBinary(IF IsSome(br.id1) /\ IsSome(br.id2)
                           THEN Insert(map, <<br.id1[1], br.id2[1]>>, br.model_record)
                           ELSE map,
                           Tail(records))

\* A lookup that tries (id2, id1) first.
BinaryLookupSwapped(map, id1, id2) ==
    IF <<id2, id1>> \in DOMAIN map THEN map[<<id2, id1>>]
    ELSE IF <<id1, id2>> \in DOMAIN map THEN map[<<id1, id2>>]
    ELSE DefaultBinary

\* `binary_map.get(&(id1, id2)).or_else(|| binary_map.get(&(id2, id1)))
\*     .cloned().unwrap_or_default()`.
BinaryLookup(map, id1, id2) ==
    IF <<id1, id2>> \in DOMAIN map THEN map[<<id1, id2>>]
    ELSE IF <<id2, id1>> \in DOMAIN map THEN map[<<id2, id1>>]
    ELSE DefaultBinary

\* One pass of `for (substances, file) in input`.
JsonEntry ==
    /\ p_pc = "start"
    /\ p_obj.read < Len(p_call.input)
    /\ LET entry == p_call.input[p_obj.read + 1]
           q == QueryAll(p_obj.queried, entry.substances)
       IN  IF ~q.ok
           THEN /\ p_out' = <<q>>
                /\ p_pc' = "done"
                /\ UNCHANGED p_obj
           ELSE IF ~entry.file.ok
           THEN /\ p_out' = <<entry.file>>
                /\ p_pc' = "done"
                /\ p_obj' = [p_obj EXCEPT !.queried = q.val]
           ELSE /\ p_obj' = [queried |-> q.val,
                             record_map |-> InsertRecords(p_obj.record_map,
                                                          entry.file.val),
                             read |-> p_obj.read + 1]
                /\ UNCHANGED <<p_pc, p_out>>
    /\ UNCHANGED p_call

\* After the loop: the comparison of the queried with the available
\* components, the pure records, the binary records and from_records.
JsonFinish ==
    /\ p_pc = "start"
    /\ p_obj.read = Len(p_call.input)
    /\ p_pc' = "done"
    /\ UNCHANGED <<p_call, p_obj>>
    /\ LET queried == p_obj.queried
           available == DOMAIN p_obj.record_map
       IN  IF \E k \in 1 .. Len(queried) : queried[k] \notin available
           THEN p_out' = <<Err("ComponentsNotFound")>>
           ELSE IF IsSome(p_call.file_binary) /\ ~p_call.file_binary[1].ok
           THEN p_out' = <<p_call.file_binary[1]>>
           ELSE LET pure == [k \in 1 .. Len(queried) |-> p_obj.record_map[queried[k]]]
                    binary_map ==
                        IF IsSome(p_call.file_binary)
                        THEN CollectBinary(EmptyMap, p_call.file_binary[1].val)
                        ELSE EmptyMap
                    n == Len(pure)
                    br == [i \in 0 .. n - 1 |-> [j \in 0 .. n - 1 |->
                              BinaryLookup(binary_map, pure[i + 1].identifier[1],
                                           pure[j + 1].identifier[1])]]
                IN  p_out' = <<Ok(Records(pure, br))>>

JsonNext ==
    \/ JsonEntry /\ UNCHANGED SolverVars
    \/ JsonFinish /\ UNCHANGED SolverVars

JsonDone == p_call.fn = "from_multiple_json" /\ p_pc = "done"

RECURSIVE AllQueried(_)
AllQueried(input) ==
    IF input = << >> THEN << >>
    ELSE Head(input).substances \o AllQueried(Tail(input))

Repeats(seq) == \E i, j \in 1 .. Len(seq) : i < j /\ seq[i] = seq[j]

\* The first k entries of the input.
Entries(k) == SubSeq(p_call.input, 1, k)

\* The identifier is that of a record of one of the first k files.
InFiles(id, k) ==
    \E e \in 1 .. k : \E r \in 1 .. Len(p_call.input[e].file.val) :
        p_call.input[e].file.val[r].identifier = Some(id)

\* The model records the binary file holds under (id1, id2).
StoredUnder(id1, id2) ==
    IF IsSome(p_call.file_binary)
    THEN LET recs == p_call.file_binary[1].val
         IN  {recs[k].model_record : k \in {x \in 1 .. Len(recs) :
                  recs[x].id1 = Some(id1) /\ recs[x].id2 = Some(id2)}}
    ELSE {}

\* C28: from_multiple_json fails with IncompatibleParameters at the entry
\* with which an identifier is queried for the second time, within the
\* entry or across entries, before the file of that entry is read; with
\* every file read, it fails with ComponentsNotFound when a queried
\* identifier is in none of them; the parameters it returns have the pure
\* records in the order queried and, at (i, j) of the binary matrix, the
\* record stored under (id_i, id_j), else the one under (id_j, id_i), else
\* the default.
C28_FromMultipleJson ==
    JsonDone =>
        LET k == p_obj.read
            all == AllQueried(p_call.input)
        IN  /\ (k < Len(p_call.input) /\ Repeats(AllQueried(Entries(k + 1))))
                   => p_out = <<Err("IncompatibleParameters")>>
            /\ p_out = <<Err("IncompatibleParameters")>> => Repeats(all)
            /\ (k = Len(p_call.input)
                   /\ \E q \in 1 .. Len(all) : ~InFiles(all[q], k))
                   => p_out = <<Err("ComponentsNotFound")>>
            /\ p_out = <<Err("ComponentsNotFound")>>
                   => \E q \in 1 .. Len(all) : ~InFiles(all[q], k)
            /\ p_out[1].ok =>
                  LET pure == p_out[1].val.pure_records
                      binary == p_out[1].val.binary_records
                      id(i) == all[i + 1]
                  IN  /\ ~Repeats(all)
                      /\ Len(pure) = Len(all)
                      /\ \A q \in 1 .. Len(all) : pure[q].identifier = Some(all[q])
                      /\ \A i, j \in 0 .. Len(all) - 1 :
                            IF StoredUnder(id(i), id(j)) # {}
                            THEN binary[i][j] \in StoredUnder(id(i), id(j))
                            ELSE IF StoredUnder(id(j), id(i)) # {}
                            THEN binary[i][j] \in StoredUnder(id(j), id(i))
                            ELSE binary[i][j] = DefaultBinary

\* Parameters of b and a, queried from two files, with the binary records
\* of (b, a) and (a, b) both in the binary file.
C28_Witness ==
    /\ JsonDone
    /\ p_out[1].ok
    /\ Len(p_call.input) = 2
    /\ AllQueried(p_call.input) = <<"b", "a">>
    /\ p_out[1].val.binary_records[0][1] = 8
    /\ p_out[1].val.binary_records[1][0] = 7

(***************************************************************************)
(* The accessors of PhaseDiagramBinary (phase_diagram_binary.rs).          *)
(***************************************************************************)

AccessorNames == {"temperature", "pressure", "vapor_molefracs", "liquid_molefracs"}

\* `eos.components()` of the equation of state of the stored states.
ComponentCounts == {1, 2}

\* A caller runs a constructor of PhaseDiagramBinary and holds what it
\* returns.
AccessorInit ==
    /\ DInit
    /\ d_call.fn \in {"new_vle", "new_lle"}
    /\ p_pc = "hold"
    /\ p_call = [fn |-> "none"]
    /\ p_obj = << >>
    /\ p_out = << >>

\* temperature() and pressure(): `from_shape_fn(self.states.len(), |i| ..)`.
FromStates(name, states) == Ok([k \in 1 .. Len(states) |-> <<name, states[k]>>])

\* vapor_molefracs() and liquid_molefracs(): the mole fraction of every
\* state, then `self.states[0]` is read, and for an equation of state of
\* one component x[0] is set to 0.
Molefracs(name, states, components) ==
    IF Len(states) = 0
    THEN Err("panic: index out of bounds: the len is 0 but the index is 0")
    ELSE Ok([k \in 1 .. Len(states) |->
                IF k = 1 /\ components = 1 THEN 0 ELSE <<name, states[k]>>])

Accessor(name, states, components) ==
    IF name \in {"temperature", "pressure"} THEN FromStates(name, states)
    ELSE Molefracs(name, states, components)

\* An accessor is called on the diagram a constructor returned.
CallAccessor ==
    /\ p_pc = "hold"
    /\ Returned
    /\ \E name \in AccessorNames, components \in ComponentCounts :
         /\ p_call' = [fn |-> name, components |-> components]
         /\ p_out' = <<Accessor(name, d_result[1].val, components)>>
    /\ p_pc' = "called"
    /\ UNCHANGED p_obj

AccessorNext ==
    \/ LleBegin /\ UNCHANGED <<cvars, hvars, gvars, pvars>>
    \/ LleStep /\ UNCHANGED <<cvars, hvars, gvars, pvars>>
    \/ LleEnd /\ UNCHANGED <<cvars, hvars, gvars, pvars>>
    \/ VleBegin /\ UNCHANGED <<cvars, hvars, gvars, pvars>>
    \/ IterateVleStep /\ UNCHANGED <<cvars, hvars, gvars, pvars>>
    \/ IterateVleEnd /\ UNCHANGED <<cvars, hvars, gvars, pvars>>
    \/ CallAccessor /\ UNCHANGED SolverVars

\* C29: on every diagram a constructor of PhaseDiagramBinary returned, one
\* of new_lle in which every flash failed included, temperature(),
\* pressure(), vapor_molefracs() and liquid_molefracs() return an array with
\* one entry per stored state and do not fail.
C29_AccessorsTotal ==
    (p_pc = "called" /\ p_call.fn \in AccessorNames) =>
        /\ p_out[1].ok
        /\ Len(p_out[1].val) = Len(d_result[1].val)

InitCrit == CInit /\ DIdle /\ HIdle /\ GIdle /\ PIdle

SpecCrit == InitCrit /\ [][CNext]_vars

\* A phase-diagram constructor is called.
InitDiagram == DInit /\ CIdle /\ HIdle /\ GIdle /\ PIdle

SpecDiagram == InitDiagram /\ [][DNext]_vars

\* heteroazeotrope_t or heteroazeotrope_p is called.
InitHetero == HInit /\ DIdle /\ CIdle /\ GIdle /\ PIdle

SpecHetero == InitHetero /\ [][HNext]_vars

\* PhaseDiagramHetero::new_txy or new_pxy is called.
InitHeteroDiagram == GInit /\ CIdle /\ HIdle /\ PIdle

SpecHeteroDiagram == InitHeteroDiagram /\ [][GNext]_vars

\* A caller holds a PhaseEquilibrium.
InitEquilibrium == EquilibriumInit /\ SolversIdle

SpecEquilibrium == InitEquilibrium /\ [][EquilibriumNext]_vars

\* Peng-Robinson parameters are constructed.
InitCubic == CubicInit /\ SolversIdle

SpecCubic == InitCubic /\ [][CubicNext]_vars

\* subset is called on parameters of three components.
InitSubset == SubsetInit /\ SolversIdle

SpecSubset == InitSubset /\ [][SubsetNext]_vars

\* ChemicalRecord::new is called.
InitChemicalRecord == ChemicalRecordInit /\ SolversIdle

SpecChemicalRecord == InitChemicalRecord /\ [][ChemicalRecordNext]_vars

\* critical_point_pure is called.
InitCriticalPointPure == CriticalPointPureInit /\ SolversIdle

SpecCriticalPointPure == InitCriticalPointPure /\ [][CriticalPointPureNext]_vars

\* from_multiple_json is called.
InitJson == JsonInit /\ SolversIdle

SpecJson == InitJson /\ [][JsonNext]_vars

\* A constructor of PhaseDiagramBinary is called and then an accessor.
InitAccessor == AccessorInit /\ CIdle /\ HIdle /\ GIdle

SpecAccessor == InitAccessor /\ [][AccessorNext]_vars

====
